---------------------------- MODULE Spec2Model ----------------------------
(***************************************************************************)
(* A model of the crossword engine (crossword_backend): the grid, the     *)
(* derived clue structure, the undo/redo action stack, the word database  *)
(* and the depth-first autofill with its stop flag and watchdog thread.   *)
(*                                                                         *)
(* Objects are records, methods are operators from the object's state to  *)
(* its new state, and the threads of Autofill are actions over program    *)
(* counters.  Rows, columns and atom codes are 0-based as in the source;  *)
(* vectors are 1-based TLA+ sequences.                                    *)
(***************************************************************************)
EXTENDS Integers, Sequences, FiniteSets, TLC

(***************************************************************************)
(* Bounds.  The source's grid store is kMAX_DIM x kMAX_DIM = 35 x 35 and  *)
(* a new puzzle is 5 x 5; the model keeps the names and scales the values *)
(* down.                                                                   *)
(***************************************************************************)
kMAX_DIM == 4

kSTART_HEIGHT == 3

kSTART_WIDTH == 3

\* Actions the user may create through the facade in one behaviour.
MaxActions == 3

\* Polls of the watchdog per second of seconds_limit (1000 in the source).
MsPerSecond == 2

\* Bits of an int (32 in the source's builds).
IntBits == 16

\* Entries added to the word index in one behaviour.
MaxEntries == 2

\* WordHashMap::max_elements, the number of partial words a cache holds
\* (10000 in the source).
max_elements == 2

(***************************************************************************)
(* Program constants.                                                      *)
(***************************************************************************)
kACROSS == 0

kDOWN == 1

kNO_NUMBER == -1

kEMPTY_CODE == 0

\* Minimum length of a run of open cells that is a clue.
kMIN_CLUE == 3

\* Length of a run that makes the barrier pattern invalid.
kBAD_RUN == 2


(***************************************************************************)
(* Atoms and words.  An Atom is its code; the model's alphabet is the     *)
(* empty atom and the letters A, B (codes 1, 2).                           *)
(***************************************************************************)
Letters == {1, 2}

Atoms == {kEMPTY_CODE} \cup Letters

IsEmptyAtom(a) == a = kEMPTY_CODE

Range(s) == {s[i] : i \in DOMAIN s}

\* Word::operator< : by size, then by the first differing atom code.
RECURSIVE WordLessFrom(_, _, _)
WordLessFrom(u, w, i) ==
  IF i > Len(u) THEN FALSE
  ELSE IF u[i] # w[i] THEN u[i] < w[i]
  ELSE WordLessFrom(u, w, i + 1)

WordLess(u, w) ==
  IF Len(u) # Len(w) THEN Len(u) < Len(w) ELSE WordLessFrom(u, w, 1)

(***************************************************************************)
(* Coordinates and cells.                                                  *)
(***************************************************************************)
Coord(r, c) == [row |-> r, col |-> c]

Dim == 0 .. (kMAX_DIM - 1)

Coords == {Coord(r, c) : r \in Dim, c \in Dim}

\* Cell(): an empty, open, unlocked cell.
NewCell == [is_barrier |-> FALSE, contents |-> kEMPTY_CODE, locked |-> FALSE]

InBounds(cw, coord) == coord.row < cw.height_ /\ coord.col < cw.width_

Get(cw, coord) == cw.grid_[coord]

IsLocked(cw, coord) == cw.grid_[coord].locked

IsFilled(cw, coord) ==
  ~Get(cw, coord).is_barrier /\ ~IsEmptyAtom(Get(cw, coord).contents)

\* Row-major list of the live cells, as the nested row/col loops visit them.
LiveCoordSeq(cw) ==
  [k \in 1 .. (cw.height_ * cw.width_) |->
     Coord((k - 1) \div cw.width_, (k - 1) % cw.width_)]

(***************************************************************************)
(* Clues.                                                                  *)
(***************************************************************************)
NewClue(direction, start, size, constraints, coords) ==
  [direction_ |-> direction, start_ |-> start, size_ |-> size,
   coord_list_ |-> coords, clue_number_ |-> kNO_NUMBER, locked_ |-> FALSE,
   constraints_ |-> constraints]

ClueIsFilled(clue) ==
  /\ clue.size_ # 0
  /\ \A i \in 1 .. Len(clue.constraints_) : ~IsEmptyAtom(clue.constraints_[i])

FitsWord(clue, word) ==
  \A i \in 1 .. clue.size_ :
    IsEmptyAtom(clue.constraints_[i]) \/ clue.constraints_[i] = word[i]

ToWord(clue) == clue.constraints_

\* Clue::IndexOfCoord, as a 1-based position (0 where the source has kNO_NUMBER).
IndexOfCoord(clue, coord) ==
  IF \E i \in 1 .. Len(clue.coord_list_) : clue.coord_list_[i] = coord
  THEN CHOOSE i \in 1 .. Len(clue.coord_list_) :
         /\ clue.coord_list_[i] = coord
         /\ \A j \in 1 .. (i - 1) : clue.coord_list_[j] # coord
  ELSE 0

\* The scan of one row (or column) i of UnfilteredClues from position k on:
\* run holds the coordinates collected so far (state = 1 iff run is not empty).
RECURSIVE ScanLine(_, _, _, _, _, _)
ScanLine(cw, direction, i, k, run, vec) ==
  LET kMax == IF direction = kDOWN THEN cw.height_ ELSE cw.width_
      c == IF direction = kDOWN THEN Coord(k, i) ELSE Coord(i, k)
      emit == IF Len(run) > 0
              THEN Append(vec, NewClue(direction, run[1], Len(run),
                                       [j \in 1 .. Len(run) |-> Get(cw, run[j]).contents],
                                       run))
              ELSE vec
  IN IF k > kMax THEN vec
     ELSE IF k = kMax \/ Get(cw, c).is_barrier
          THEN ScanLine(cw, direction, i, k + 1, << >>, emit)
          ELSE ScanLine(cw, direction, i, k + 1, Append(run, c), vec)

RECURSIVE ScanLines(_, _, _, _)
ScanLines(cw, direction, i, vec) ==
  LET iMax == IF direction = kDOWN THEN cw.width_ ELSE cw.height_
  IN IF i >= iMax THEN vec
     ELSE ScanLines(cw, direction, i + 1, ScanLine(cw, direction, i, 0, << >>, vec))

\* An UnfilteredClues that scans the rows whatever the direction.
AcrossClues(cw, direction) == ScanLines(cw, kACROSS, 0, << >>)

UnfilteredClues(cw, direction) == ScanLines(cw, direction, 0, << >>)

\* An IsValidPattern that rejects every run shorter than a clue.
IsValidPatternOfClues(cw) ==
  /\ \A i \in DOMAIN UnfilteredClues(cw, kACROSS) :
       UnfilteredClues(cw, kACROSS)[i].size_ >= kMIN_CLUE
  /\ \A i \in DOMAIN UnfilteredClues(cw, kDOWN) :
       UnfilteredClues(cw, kDOWN)[i].size_ >= kMIN_CLUE

IsValidPattern(cw) ==
  /\ \A i \in DOMAIN UnfilteredClues(cw, kACROSS) :
       UnfilteredClues(cw, kACROSS)[i].size_ # kBAD_RUN
  /\ \A i \in DOMAIN UnfilteredClues(cw, kDOWN) :
       UnfilteredClues(cw, kDOWN)[i].size_ # kBAD_RUN

\* The number of the cells, in row-major order up to position k of the live
\* cells, that start at least one clue: the value of cn when Clues_ visits it.
StartsBefore(cw, clue_vector, coord) ==
  Cardinality({k \in 1 .. (cw.height_ * cw.width_) :
     /\ LET c == LiveCoordSeq(cw)[k]
        IN /\ (c.row < coord.row \/ (c.row = coord.row /\ c.col <= coord.col))
           /\ \E i \in DOMAIN clue_vector : clue_vector[i].start_ = c})

\* Crossword::Clues_ : across clues, then down clues, of size >= 3, each with
\* its locked flag and its number.
Clues_(cw) ==
  LET IsClue(cl) == cl.size_ >= kMIN_CLUE
      clue_vector == SelectSeq(UnfilteredClues(cw, kACROSS), IsClue)
                       \o SelectSeq(UnfilteredClues(cw, kDOWN), IsClue)
      Locked(cl) == \A j \in 1 .. Len(cl.coord_list_) :
                      /\ IsLocked(cw, cl.coord_list_[j])
                      /\ ~IsEmptyAtom(Get(cw, cl.coord_list_[j]).contents)
  IN [i \in DOMAIN clue_vector |->
        [clue_vector[i] EXCEPT
           !.locked_ = Locked(clue_vector[i]),
           !.clue_number_ = StartsBefore(cw, clue_vector, clue_vector[i].start_)]]

\* A CluesStartingAt_ that keeps the clues whose first coordinate is coord.
CluesBeginningAt(all_clues, coord) ==
  LET Begins(i) == all_clues[i].start_ = coord
  IN SelectSeq([i \in DOMAIN all_clues |-> i], Begins)

\* Crossword::CluesStartingAt_ : the (indices of the) clues whose coordinate
\* list holds coord, in clue order.
CluesStartingAt_(all_clues, coord) ==
  LET Holds(i) == coord \in Range(all_clues[i].coord_list_)
  IN SelectSeq([i \in DOMAIN all_clues |-> i], Holds)

\* A GetClueNumber_ that gives the number of the first clue through coord.
NumberOfFirstClue(all_clues, coord) ==
  LET Holds(i) == coord \in Range(all_clues[i].coord_list_)
      clues == SelectSeq([i \in DOMAIN all_clues |-> i], Holds)
  IN IF Len(clues) = 0 THEN kNO_NUMBER ELSE all_clues[clues[1]].clue_number_

GetClueNumber_(all_clues, coord) ==
  LET clues == CluesStartingAt_(all_clues, coord)
  IN IF Len(clues) = 2
     THEN IF all_clues[clues[1]].start_ = coord THEN all_clues[clues[1]].clue_number_
          ELSE IF all_clues[clues[2]].start_ = coord THEN all_clues[clues[2]].clue_number_
          ELSE kNO_NUMBER
     ELSE IF Len(clues) = 0 THEN kNO_NUMBER
     ELSE IF all_clues[clues[1]].start_ = coord THEN all_clues[clues[1]].clue_number_
     ELSE kNO_NUMBER

DirtyClueStructure(cw) == [cw EXCEPT !.clue_cache_.dirty = TRUE]

\* Crossword::PopulateClueStructure : only the live cells' entries are rewritten.
PopulateClueStructure(cw) ==
  LET clues == Clues_(cw)
  IN [cw EXCEPT
        !.clue_cache_ =
           [clues |-> clues,
            numberings |-> [c \in Coords |->
               IF InBounds(cw, c) THEN GetClueNumber_(clues, c)
               ELSE cw.clue_cache_.numberings[c]],
            cell_mapping |-> [c \in Coords |->
               IF InBounds(cw, c) THEN CluesStartingAt_(clues, c)
               ELSE cw.clue_cache_.cell_mapping[c]],
            dirty |-> FALSE]]

Clues(cw) == cw.clue_cache_.clues

\* Crossword::CluesStartingAt : copies of the clues the cell mapping lists
\* for coord.
CluesStartingAt(cw, coord) ==
  [k \in DOMAIN cw.clue_cache_.cell_mapping[coord] |->
     cw.clue_cache_.clues[cw.clue_cache_.cell_mapping[coord][k]]]

GetClueNumber(cw, coord) == cw.clue_cache_.numberings[coord]

(***************************************************************************)
(* Cell contents.                                                          *)
(***************************************************************************)
\* A Set_ that writes the cell and leaves the clues alone.
SetCell(cw, val, coord) ==
  [cw EXCEPT
     !.grid_[coord].contents = val,
     !.tripped = @ \/ ~InBounds(cw, coord) \/ Get(cw, coord).is_barrier]

\* Crossword::Set_ : write the cell and mirror the value into the constraints
\* of every clue the cell mapping lists for it.  tripped records a failed
\* assert (out of bounds, or a barrier cell).
Set_(cw, val, coord) ==
  LET mapping == cw.clue_cache_.cell_mapping[coord]
      Mirror(clues) ==
        [i \in DOMAIN clues |->
           IF i \in Range(mapping) /\ IndexOfCoord(clues[i], coord) > 0
           THEN [clues[i] EXCEPT !.constraints_[IndexOfCoord(clues[i], coord)] = val]
           ELSE clues[i]]
  IN [cw EXCEPT
        !.grid_[coord].contents = val,
        !.clue_cache_.clues = Mirror(@),
        !.tripped = @ \/ ~InBounds(cw, coord) \/ Get(cw, coord).is_barrier]

(***************************************************************************)
(* Actions.  id stands for the identity of the heap object handed to       *)
(* ApplyAction; the actions inside a group, and the groups the search      *)
(* builds, carry id 0.                                                     *)
(***************************************************************************)
CrosswordSetAction(id, new_value, old_value, coord) ==
  [kind |-> "set", id |-> id, coord_ |-> coord, new_value_ |-> new_value,
   old_value_ |-> old_value, actions_ |-> << >>]

\* CrosswordActionGroup() with AddAction called for each element of actions.
CrosswordActionGroup(id, actions) ==
  [kind |-> "group", id |-> id, coord_ |-> Coord(0, 0), new_value_ |-> kEMPTY_CODE,
   old_value_ |-> kEMPTY_CODE, actions_ |-> actions]

\* A fill with a set action for every position of the clue.
CrosswordActionGroupFillAll(cw, id, clue, word) ==
  CrosswordActionGroup(id,
    [k \in DOMAIN word |->
       CrosswordSetAction(0, word[k], Get(cw, clue.coord_list_[k]).contents,
                          clue.coord_list_[k])])

\* CrosswordActionGroup(crossword, clue, word): one set action for each
\* position whose constraint is empty.
CrosswordActionGroupFill(cw, id, clue, word) ==
  LET Blank(i) == IsEmptyAtom(clue.constraints_[i])
      blanks == SelectSeq([i \in 1 .. Len(word) |-> i], Blank)
  IN CrosswordActionGroup(id,
       [k \in DOMAIN blanks |->
          CrosswordSetAction(0, word[blanks[k]],
                             Get(cw, clue.coord_list_[blanks[k]]).contents,
                             clue.coord_list_[blanks[k]])])

SetActionApply(cw, action) == Set_(cw, action.new_value_, action.coord_)

\* A set action whose Invert writes the new value again.
SetActionInvertNew(cw, action) == Set_(cw, action.new_value_, action.coord_)

SetActionInvert(cw, action) == Set_(cw, action.old_value_, action.coord_)

RECURSIVE GroupApplyFrom(_, _, _)
GroupApplyFrom(cw, actions, i) ==
  IF i > Len(actions) THEN cw
  ELSE GroupApplyFrom(SetActionApply(cw, actions[i]), actions, i + 1)

\* A group that inverts its actions in the order it applied them
\* (called with i = Len(actions), as GroupInvertFrom is).
RECURSIVE GroupInvertForward(_, _, _)
GroupInvertForward(cw, actions, i) ==
  IF i < 1 THEN cw
  ELSE GroupInvertForward(SetActionInvert(cw, actions[Len(actions) - i + 1]), actions, i - 1)

RECURSIVE GroupInvertFrom(_, _, _)
GroupInvertFrom(cw, actions, i) ==
  IF i < 1 THEN cw
  ELSE GroupInvertFrom(SetActionInvert(cw, actions[i]), actions, i - 1)

\* CrosswordAction::Apply (virtual): a set action or a group.
ActionApply(cw, action) ==
  IF action.kind = "set" THEN SetActionApply(cw, action)
  ELSE GroupApplyFrom(cw, action.actions_, 1)

\* CrosswordAction::Invert (virtual): a group inverts in reverse order.
ActionInvert(cw, action) ==
  IF action.kind = "set" THEN SetActionInvert(cw, action)
  ELSE GroupInvertFrom(cw, action.actions_, Len(action.actions_))

(***************************************************************************)
(* The action stack.                                                       *)
(***************************************************************************)
NewActionStack == [index_ |-> 0, stack_ |-> << >>]

GetSize(cw) == cw.action_stack_.index_

IsEmpty(cw) == cw.action_stack_.index_ = 0

\* A Push that inserts at index_ without erasing the entries from index_ on.
PushKeepTail(st, action) ==
  [index_ |-> st.index_ + 1,
   stack_ |-> SubSeq(st.stack_, 1, st.index_) \o <<action>>
              \o SubSeq(st.stack_, st.index_ + 1, Len(st.stack_))]

\* CrosswordActionStack::Push : entries from index_ on are erased first.
Push(st, action) ==
  IF Len(st.stack_) > st.index_
  THEN [index_ |-> st.index_ + 1,
        stack_ |-> Append(SubSeq(st.stack_, 1, st.index_), action)]
  ELSE [index_ |-> st.index_ + 1, stack_ |-> Append(st.stack_, action)]

\* A Pop that refuses one entry too early.
PopEarly(cw) ==
  IF cw.action_stack_.index_ <= 1 THEN [cw |-> cw, ret |-> FALSE]
  ELSE LET moved == [cw EXCEPT !.action_stack_.index_ = @ - 1]
       IN [cw |-> ActionInvert(moved, moved.action_stack_.stack_[moved.action_stack_.index_ + 1]),
           ret |-> TRUE]

\* CrosswordActionStack::Pop : the new crossword and the value returned.
Pop(cw) ==
  IF IsEmpty(cw) THEN [cw |-> cw, ret |-> FALSE]
  ELSE LET moved == [cw EXCEPT !.action_stack_.index_ = @ - 1]
       IN [cw |-> ActionInvert(moved, moved.action_stack_.stack_[moved.action_stack_.index_ + 1]),
           ret |-> TRUE]

\* CrosswordActionStack::Replace.
Replace(cw) ==
  IF Len(cw.action_stack_.stack_) > cw.action_stack_.index_
  THEN [cw |-> [ActionApply(cw, cw.action_stack_.stack_[cw.action_stack_.index_ + 1])
                  EXCEPT !.action_stack_.index_ = @ + 1],
        ret |-> TRUE]
  ELSE [cw |-> cw, ret |-> FALSE]

(***************************************************************************)
(* The crossword's methods.                                                *)
(***************************************************************************)
ApplyAction(cw, action) ==
  [ActionApply(cw, action) EXCEPT !.action_stack_ = Push(@, action)]

Undo(cw) == Pop(cw)

Redo(cw) == Replace(cw)

Set(cw, id, val, coord) ==
  ApplyAction(cw, CrosswordSetAction(id, val, Get(cw, coord).contents, coord))

SetClue(cw, id, clue, word) ==
  ApplyAction(cw, CrosswordActionGroupFill(cw, id, clue, word))

\* A ClearClue whose actions record the empty atom as the old value.
ClearClueForgetful(cw, id, clue) ==
  ApplyAction(cw, CrosswordActionGroup(id,
    [i \in 1 .. clue.size_ |->
       CrosswordSetAction(0, kEMPTY_CODE, kEMPTY_CODE, clue.coord_list_[i])]))

ClearClue(cw, id, clue) ==
  ApplyAction(cw, CrosswordActionGroup(id,
    [i \in 1 .. clue.size_ |->
       CrosswordSetAction(0, kEMPTY_CODE, Get(cw, clue.coord_list_[i]).contents,
                          clue.coord_list_[i])]))

ClearAtoms(cw, id) ==
  LET Open(c) == ~Get(cw, c).is_barrier
      open == SelectSeq(LiveCoordSeq(cw), Open)
  IN ApplyAction(cw, CrosswordActionGroup(id,
       [i \in DOMAIN open |->
          CrosswordSetAction(0, kEMPTY_CODE, Get(cw, open[i]).contents, open[i])]))

GetRotationalPair(cw, coord) ==
  Coord(cw.height_ - 1 - coord.row, cw.width_ - 1 - coord.col)

SetBarrier(cw, val, coord, enforce_symmetry) ==
  LET pair == GetRotationalPair(cw, coord)
      one == [DirtyClueStructure(cw) EXCEPT !.grid_[coord].is_barrier = val]
      two == IF enforce_symmetry /\ pair # coord
             THEN [one EXCEPT !.grid_[pair].is_barrier = val]
             ELSE one
  IN PopulateClueStructure(two)

ToggleBarrier(cw, coord, enforce_symmetry) ==
  SetBarrier(cw, ~cw.grid_[coord].is_barrier, coord, enforce_symmetry)

SetDimensions(cw, height, width) ==
  PopulateClueStructure([DirtyClueStructure(cw) EXCEPT !.height_ = height,
                                                        !.width_ = width])

\* A LockCell that pushes an (empty) action group to the log.
LockCellLogged(cw, coord, value) ==
  [cw EXCEPT !.grid_[coord].locked = value,
             !.action_stack_ = Push(@, CrosswordActionGroup(0, << >>))]

LockCell(cw, coord, value) == [cw EXCEPT !.grid_[coord].locked = value]

ToggleLockCell(cw, coord) == LockCell(cw, coord, ~IsLocked(cw, coord))

\* Crossword(): the default 5 x 5 puzzle (scaled), every cell default
\* constructed, the clue structure populated once.
NewCrossword ==
  PopulateClueStructure(
    [grid_ |-> [c \in Coords |-> NewCell],
     height_ |-> kSTART_HEIGHT,
     width_ |-> kSTART_WIDTH,
     clue_cache_ |-> [clues |-> << >>,
                      numberings |-> [c \in Coords |-> "uninitialized"],
                      cell_mapping |-> [c \in Coords |-> << >>],
                      dirty |-> TRUE],
     action_stack_ |-> NewActionStack,
     tripped |-> FALSE])

(***************************************************************************)
(* The word trie.  A node is a record; its children are in insertion       *)
(* order.                                                                  *)
(***************************************************************************)
\* TrieNode(value, parent): leaf_word is the path from the root, cut after
\* the last empty atom on it.
RECURSIVE TraversedWord(_)
TraversedWord(path) ==
  IF path = << >> \/ IsEmptyAtom(path[Len(path)]) THEN << >>
  ELSE Append(TraversedWord(SubSeq(path, 1, Len(path) - 1)), path[Len(path)])

TrieNode(value, path) ==
  [value |-> value, children |-> << >>, leaf_word |-> TraversedWord(path)]

\* WordTrie(): a root with the empty atom.
NewWordTrie == TrieNode(kEMPTY_CODE, << >>)

IsTerminal(node) == node.children = << >>

\* A FindChild that finds no child.
NoChild(node, queried_child) == 0

\* TrieNode::FindChild, as the position of the child (0 for nullptr).
FindChild(node, queried_child) ==
  IF \E k \in DOMAIN node.children : node.children[k].value = queried_child
  THEN CHOOSE k \in DOMAIN node.children :
         /\ node.children[k].value = queried_child
         /\ \A j \in 1 .. k - 1 : node.children[j].value # queried_child
  ELSE 0

\* WordTrie::Insert from letter i of entry on, below node.
RECURSIVE InsertFrom(_, _, _)
InsertFrom(node, entry, i) ==
  IF i > Len(entry) THEN node
  ELSE LET k == FindChild(node, entry[i])
       IN IF k # 0
          THEN [node EXCEPT !.children[k] = InsertFrom(@, entry, i + 1)]
          ELSE [node EXCEPT !.children =
                  Append(@, InsertFrom(TrieNode(entry[i], SubSeq(entry, 1, i)),
                                       entry, i + 1))]

Insert(trie, entry) == InsertFrom(trie, entry, 1)

\* TrieNode::Find(partial, substr_start), substr_start counted from 1.
RECURSIVE Find(_, _, _)
RECURSIVE FindInChildren(_, _, _, _)
Find(node, partial, substr_start) ==
  LET target_child == partial[substr_start]
      child == FindChild(node, target_child)
  IN IF substr_start = Len(partial)
     THEN IF IsEmptyAtom(target_child)
          THEN [k \in DOMAIN node.children |-> node.children[k].leaf_word]
          ELSE IF child = 0 THEN << >> ELSE <<node.children[child].leaf_word>>
     ELSE IF IsEmptyAtom(target_child)
          THEN FindInChildren(node, 1, partial, substr_start)
          ELSE IF child = 0 THEN << >>
               ELSE Find(node.children[child], partial, substr_start + 1)

FindInChildren(node, k, partial, substr_start) ==
  IF k > Len(node.children) THEN << >>
  ELSE Find(node.children[k], partial, substr_start + 1)
         \o FindInChildren(node, k + 1, partial, substr_start)

(***************************************************************************)
(* The word database: one FixedSizeWordDatabase per word length.           *)
(***************************************************************************)
DatabaseEntry(entry, frequency_score, letter_score) ==
  [entry |-> entry, frequency_score |-> frequency_score, letter_score |-> letter_score]

\* Maps are functions on the set of their keys.
EmptyMap == [w \in {} |-> FALSE]

MapPut(map, key, value) ==
  [w \in DOMAIN map \cup {key} |-> IF w = key THEN value ELSE map[w]]

MapErase(map, key) == [w \in DOMAIN map \ {key} |-> map[w]]

NewFixedSizeWordDatabase(word_length) ==
  [size_ |-> word_length, entries_ |-> << >>, word_set_ |-> EmptyMap,
   trie_ |-> NewWordTrie, partial_word_cache_ |-> EmptyMap]

\* WordDatabase(): nothing loaded.
NewWordDatabase ==
  [databases_ |-> [i \in Dim |-> NewFixedSizeWordDatabase(i)],
   is_finished_loading_ |-> FALSE]

\* WordDatabase::AddEntry and FixedSizeWordDatabase::AddEntry.
AddEntry(db, entry, frequency_score, letter_score) ==
  [db EXCEPT !.databases_[Len(entry)] =
     [@ EXCEPT !.entries_ = Append(@, DatabaseEntry(entry, frequency_score, letter_score)),
               !.word_set_ = MapPut(@, entry, frequency_score),
               !.trie_ = Insert(@, entry)]]

ContainsEntry(db, word) == word \in DOMAIN db.databases_[Len(word)].word_set_

GetFrequencyScore(db, word) == db.databases_[Len(word)].word_set_[word]

\* An insert that erases nothing.
WordHashMapInsertAll(map_, w, value) ==
  {IF w \in DOMAIN map_ THEN map_ ELSE MapPut(map_, w, value)}

\* WordHashMap::insert : the maps it may leave.  At max_elements it first
\* erases map_.begin(), some element of the unordered map.
WordHashMapInsert(map_, w, value) ==
  LET Put(m) == IF w \in DOMAIN m THEN m ELSE MapPut(m, w, value)
  IN IF Cardinality(DOMAIN map_) >= max_elements
     THEN {Put(MapErase(map_, victim)) : victim \in DOMAIN map_}
     ELSE {Put(map_)}

\* A HasSolution that looks at no cache and at no score.
HasSolutionOfAnyScore(db, clue, score_min) ==
  {[ret |-> \E i \in DOMAIN db.databases_[clue.size_].entries_ :
              FitsWord(clue, db.databases_[clue.size_].entries_[i].entry),
    db |-> db]}

\* HasSolution: the possible pairs of the value returned and the database
\* left, whose partial-word cache may have a new entry.
HasSolution(db, clue, score_min) ==
  LET fixed == db.databases_[clue.size_]
      clue_partial == ToWord(clue)
      scan == \E i \in DOMAIN fixed.entries_ :
                /\ fixed.entries_[i].frequency_score >= score_min
                /\ FitsWord(clue, fixed.entries_[i].entry)
  IN IF clue_partial \in DOMAIN fixed.partial_word_cache_
     THEN {[ret |-> fixed.partial_word_cache_[clue_partial], db |-> db]}
     ELSE {[ret |-> scan,
            db |-> [db EXCEPT !.databases_[clue.size_].partial_word_cache_ = map]] :
             map \in WordHashMapInsert(fixed.partial_word_cache_, clue_partial, scan)}

\* A GetSolutions that leaves out the words of score score_min or less.
GetSolutionsAbove(db, clue, limit, score_min) ==
  LET all_solutions == Find(db.databases_[clue.size_].trie_, ToWord(clue), 1)
      Passing(solution_word) == GetFrequencyScore(db, solution_word) > score_min
  IN SelectSeq(all_solutions, Passing)

\* GetSolutions: what the trie finds; the score test is disabled in the source.
GetSolutions(db, clue, limit, score_min) ==
  LET all_solutions == Find(db.databases_[clue.size_].trie_, ToWord(clue), 1)
      Passing(solution_word) ==
        TRUE \/ GetFrequencyScore(db, solution_word) >= score_min
  IN SelectSeq(all_solutions, Passing)

\* ATOM_SCORES[code] * 1000., in thousandths, for the empty atom, A and B.
ATOM_SCORES == <<0, 90625, 20978>>

\* GetLetterScore: the sum of the atoms' scores times the number of distinct
\* atoms, cut to an int.
GetLetterScore(word) ==
  LET RECURSIVE Sum(_)
      Sum(k) == IF k = 0 THEN 0 ELSE ATOM_SCORES[word[k] + 1] + Sum(k - 1)
      unique == {word[k] : k \in DOMAIN word}
  IN (Sum(Len(word)) * Cardinality(unique)) \div 1000

\* FixedSizeWordDatabase::NormalizeFrequencyScores.  With N entries of sum T
\* and sum of squares Q, mean = T / N and sd = sqrt(D) / N for
\* D = N * Q - T * T, so that sigma = a / sqrt(D) for a = N * score - T.
\* When D = 0 sigma is 0. / 0., a NaN: no comparison with it holds, max(-1., NaN)
\* is -1. and the new score is max(1., 0.) = 1.  Otherwise the int the new
\* score is cut to is found by comparing squares.
NormalizeFrequencyScores(fixed) ==
  LET N == Len(fixed.entries_)
      RECURSIVE Total(_, _)
      Total(k, square) ==
        IF k = 0 THEN 0
        ELSE (IF square THEN fixed.entries_[k].frequency_score ^ 2
              ELSE fixed.entries_[k].frequency_score) + Total(k - 1, square)
      T == Total(N, FALSE)
      D == N * Total(N, TRUE) - T * T
      Largest(S) == CHOOSE s \in S : \A t \in S : t <= s
      NewScore(score) ==
        LET a == N * score - T
        IN IF D = 0 THEN 1
           ELSE IF a > 0
           THEN Largest({s \in 50 .. 100 : (s - 50) * (s - 50) * D <= 2500 * a * a})
           ELSE Largest({1} \cup {s \in 0 .. 50 : (50 - s) * (50 - s) * D >= 625 * a * a})
      RECURSIVE Each(_, _)
      Each(f, k) ==
        IF k > N THEN f
        ELSE LET new_score == NewScore(fixed.entries_[k].frequency_score)
             IN Each([f EXCEPT !.entries_[k].frequency_score = new_score,
                               !.word_set_ = MapPut(@, fixed.entries_[k].entry, new_score)],
                     k + 1)
  IN IF N = 0 THEN fixed ELSE Each(fixed, 1)

\* std::sort of the entries by operator< (letter_score) and std::reverse.
\* Entries of equal letter_score, whose order std::sort does not specify,
\* are in no database that is loaded: see NewFiles.
RECURSIVE SortReverse(_)
SortReverse(entries_) ==
  IF entries_ = << >> THEN << >>
  ELSE LET m == CHOOSE i \in DOMAIN entries_ :
                  \A j \in DOMAIN entries_ : entries_[j].letter_score <= entries_[i].letter_score
       IN <<entries_[m]>> \o SortReverse([k \in 1 .. Len(entries_) - 1 |->
                                            IF k < m THEN entries_[k] ELSE entries_[k + 1]])

\* WordDatabase::LoadFromFile.  A file is [is_open, lines]; a line is a word
\* and its score.  A file that cannot be opened makes the function return
\* at once.
LoadFromFile(database, file) ==
  LET RECURSIVE Read(_, _)
      Read(d, k) ==
        IF k > Len(file.lines) THEN d
        ELSE Read(IF Len(file.lines[k].word) < kMAX_DIM
                  THEN AddEntry(d, file.lines[k].word, file.lines[k].score,
                                GetLetterScore(file.lines[k].word))
                  ELSE d, k + 1)
      read == Read(database, 1)
  IN IF ~file.is_open THEN database
     ELSE [read EXCEPT
             !.databases_ =
               [i \in Dim |->
                  LET normal == NormalizeFrequencyScores(read.databases_[i])
                  IN [normal EXCEPT !.entries_ = SortReverse(@)]],
             !.is_finished_loading_ = TRUE]

\* A FlushCaches that clears nothing.
FlushNothing(db) == db

FlushCaches(db) ==
  [db EXCEPT !.databases_ =
     [i \in Dim |-> [db.databases_[i] EXCEPT !.partial_word_cache_ = EmptyMap]]]

(***************************************************************************)
(* The search: accept, reject and the children of a node.                  *)
(***************************************************************************)
Solvability == {"Solvable", "Overdetermined", "Invalid", "Duplicate", "Weak"}

ClueIsSolved(clue, db) == ClueIsFilled(clue) /\ ContainsEntry(db, ToWord(clue))

IsSolved(all_clues, db) ==
  \A i \in DOMAIN all_clues : ClueIsSolved(all_clues[i], db)

\* The first loop of IsInvalidPartial from clue i on: ret is the verdict it
\* returns, or "pass" when the loop runs to its end.
RECURSIVE FirstPass(_, _, _, _)
FirstPass(all_clues, i, db, score_min) ==
  IF i > Len(all_clues) THEN {[ret |-> "pass", db |-> db]}
  ELSE LET it == all_clues[i]
       IN IF ClueIsFilled(it)
          THEN IF it.locked_ THEN FirstPass(all_clues, i + 1, db, score_min)
               ELSE IF ~ClueIsSolved(it, db) THEN {[ret |-> "Invalid", db |-> db]}
               ELSE IF GetFrequencyScore(db, ToWord(it)) < score_min
                    THEN {[ret |-> "Weak", db |-> db]}
                    ELSE FirstPass(all_clues, i + 1, db, score_min)
          ELSE UNION {IF o.ret THEN FirstPass(all_clues, i + 1, o.db, score_min)
                      ELSE {[ret |-> "Overdetermined", db |-> o.db]} :
                        o \in HasSolution(db, it, score_min)}

\* A second loop that never reports a duplicate.
NoDuplicateWord(all_clues) == FALSE

\* The second loop of IsInvalidPartial: some word is counted twice, that is,
\* a filled clue spells the word of an earlier filled clue.
DuplicateWord(all_clues) ==
  \E i \in DOMAIN all_clues : \E j \in 1 .. i - 1 :
    /\ ClueIsFilled(all_clues[i])
    /\ ClueIsFilled(all_clues[j])
    /\ ToWord(all_clues[i]) = ToWord(all_clues[j])

\* IsInvalidPartial: the possible pairs of its verdict and the database left.
IsInvalidPartial(all_clues, db, score_min) ==
  {IF o.ret = "pass"
   THEN [ret |-> IF DuplicateWord(all_clues) THEN "Duplicate" ELSE "Solvable",
         db |-> o.db]
   ELSE o : o \in FirstPass(all_clues, 1, db, score_min)}

\* A comparison that puts down before across at equal starts.
FillOrderDownFirst(clue_a, clue_b) ==
  LET a == clue_a.start_
      b == clue_b.start_
      da == a.row + a.col
      db == b.row + b.col
  IN IF a = b THEN clue_a.direction_ = kDOWN
     ELSE IF da = db
          THEN IF a.row = b.row THEN clue_a.direction_ = kDOWN ELSE a.row < b.row
          ELSE da < db

\* The comparison GetWordFills sorts the clues with.
FillOrderLess(clue_a, clue_b) ==
  LET a == clue_a.start_
      b == clue_b.start_
      da == a.row + a.col
      db == b.row + b.col
  IN IF a = b THEN clue_a.direction_ = kACROSS
     ELSE IF da = db
          THEN IF a.row = b.row THEN clue_a.direction_ = kACROSS ELSE a.row < b.row
          ELSE da < db

RECURSIVE SortClues(_)
SortClues(clues) ==
  IF clues = << >> THEN << >>
  ELSE LET m == CHOOSE i \in DOMAIN clues :
                  \A j \in DOMAIN clues \ {i} : ~FillOrderLess(clues[j], clues[i])
       IN <<clues[m]>> \o SortClues([k \in 1 .. Len(clues) - 1 |->
                                       IF k < m THEN clues[k] ELSE clues[k + 1]])

\* A shuffle of all the elements, whatever shuffle_count is.
ShufflesAll(sols, shuffle_count) ==
  {[k \in DOMAIN sols |-> sols[perm[k]]] :
     perm \in {f \in [DOMAIN sols -> DOMAIN sols] :
                 \A x, y \in DOMAIN sols : x # y => f[x] # f[y]}}

\* std::shuffle of the first shuffle_count elements: any permutation of them.
Shuffles(sols, shuffle_count) ==
  {[k \in DOMAIN sols |-> IF k <= shuffle_count THEN sols[perm[k]] ELSE sols[k]] :
     perm \in {f \in [1 .. shuffle_count -> 1 .. shuffle_count] :
                 \A x, y \in 1 .. shuffle_count : x # y => f[x] # f[y]}}

\* GetWordFills: the lists of fills it may return, all for the first unfilled
\* clue of the sorted list.  shuffle_count is the integer part of
\* min(1, entropy / 100) * size; the loop leaves after limit + 1 entries.
GetWordFills(cw, all_clues, params, db) ==
  LET clues == SortClues(all_clues)
      Unfilled(k) == ~ClueIsFilled(clues[k])
      open == SelectSeq([k \in DOMAIN clues |-> k], Unfilled)
      clue == clues[open[1]]
      sols == GetSolutions(db, clue, kNO_NUMBER, params.score_min)
      capped == IF params.entropy >= 100 THEN 100 ELSE params.entropy
      shuffle_count == (capped * Len(sols)) \div 100
      limit == params.branching_factor_limit
      Taken(n) == IF limit # kNO_NUMBER /\ limit + 1 < n THEN limit + 1 ELSE n
  IN IF open = << >> THEN {<< >>}
     ELSE {[k \in 1 .. Taken(Len(order)) |->
              CrosswordActionGroupFill(cw, 0, clue, order[k])] :
             order \in Shuffles(sols, shuffle_count)}

DFSNode(action, depth) == [action |-> action, depth |-> depth]

\* The pre-search loop of Autofill: every filled live cell is locked, and the
\* ones that were not locked before are remembered.
LockFilled(cw) ==
  LET Fresh(c) == IsFilled(cw, c) /\ ~IsLocked(cw, c)
  IN [cw |-> [cw EXCEPT !.grid_ =
                [c \in Coords |->
                   IF InBounds(cw, c) /\ IsFilled(cw, c)
                   THEN [cw.grid_[c] EXCEPT !.locked = TRUE]
                   ELSE cw.grid_[c]]],
      locked_coords |-> SelectSeq(LiveCoordSeq(cw), Fresh)]

\* A release that unlocks every filled live cell.
ReleaseFilled(cw, locked_coords) ==
  [cw EXCEPT !.grid_ =
     [c \in Coords |->
        IF InBounds(cw, c) /\ IsFilled(cw, c)
        THEN [cw.grid_[c] EXCEPT !.locked = FALSE]
        ELSE cw.grid_[c]]]

\* for (auto &coord: locked_coords) ToggleLockCell(coord);
RECURSIVE ReleaseLocks(_, _)
ReleaseLocks(cw, locked_coords) ==
  IF locked_coords = << >> THEN cw
  ELSE ReleaseLocks(ToggleLockCell(cw, locked_coords[1]), Tail(locked_coords))

\* A rollback to the node's depth that stops one action early.
RECURSIVE UndoShort(_, _)
UndoShort(cw, depth) ==
  IF GetSize(cw) > depth + 1 THEN UndoShort(Undo(cw).cw, depth) ELSE cw

\* while (GetSize() > relative_depth - 1) Undo();
RECURSIVE UndoTo(_, _)
UndoTo(cw, depth) ==
  IF GetSize(cw) > depth THEN UndoTo(Undo(cw).cw, depth) ELSE cw

\* for (i = 0; i < n; i++) Undo();
RECURSIVE UndoTimes(_, _)
UndoTimes(cw, n) == IF n <= 0 THEN cw ELSE UndoTimes(Undo(cw).cw, n - 1)

\* A rollback that leaves the first action of the iteration applied.
RollbackButOne(cw, initial_depth) ==
  UndoTimes(cw, GetSize(cw) - initial_depth - 1)

\* The rollback of a failed iteration: Undo() depth_reached times.
Rollback(cw, initial_depth) == UndoTimes(cw, GetSize(cw) - initial_depth)

\* static_cast<int>(value * decay), decay being the fraction num / den.
Decayed(value, decay) == (value * decay.num) \div decay.den

(***************************************************************************)
(* State.                                                                  *)
(***************************************************************************)
VARIABLES
  crossword,      \* the Crossword object
  next_id,        \* identity of the next action; counts the user's changes
  op,             \* the facade operation executed last
  prev_op,        \* the one before it
  ret,            \* what the last undo() / redo() returned
  discarded,      \* identities of the actions Push erased from the stack
  subject,        \* the action whose Apply and Invert are exercised
  origin,         \* the crossword subject was first applied to
  db,             \* the WordDatabase
  params,         \* the AutofillParams handed to Autofill
  pc,             \* where the thread that runs Autofill is
  stop_searching, \* Crossword::stop_searching
  done_searching, \* Crossword::done_searching
  watchdog,       \* the thread running StopSearchingAfterTime
  af,             \* the locals of Autofill
  at_call,        \* the crossword when Autofill was called
  stop_called,    \* StopAutofill() was called between the call and done
  query,          \* the last call made to the word index or the oracle
  answer,         \* what that call returned
  loader          \* db_lock_ and the threads LoadDeferred has started

edit_vars == <<crossword, next_id, op, prev_op, ret, discarded>>

invert_vars == <<subject, origin>>

call_vars == <<query, answer, loader>>

NoCall == [name |-> "none"]

\* db_lock_ is free (0) and no loader thread exists.
NoLoader == [lock |-> 0, threads |-> << >>]

search_vars ==
  <<db, params, pc, stop_searching, done_searching, watchdog, af, at_call, stop_called>>

vars == <<edit_vars, invert_vars, call_vars, search_vars>>

Fraction(num, den) == [num |-> num, den |-> den]

\* The value an int holds after an arithmetic result x: IntBits bits, two's
\* complement (what the builds of the program produce on overflow).
ToInt(x) == ((x + 2 ^ (IntBits - 1)) % (2 ^ IntBits)) - 2 ^ (IntBits - 1)

\* AutofillParams(db): the defaults of the constructor.
DefaultParams ==
  [entropy |-> 100, entropy_decay |-> Fraction(9, 10), score_min |-> 100,
   score_min_decay |-> Fraction(9, 10), branching_factor_limit |-> kNO_NUMBER,
   rollback |-> TRUE, seconds_limit |-> 100]

NoLocals ==
  [locked_coords |-> << >>, found |-> FALSE, complete_search |-> TRUE,
   dfs_stack |-> << >>, initial_depth |-> 0]

\* No Autofill has been called.
NoSearch ==
  /\ params = DefaultParams
  /\ pc = "idle"
  /\ stop_searching = FALSE
  /\ done_searching = FALSE
  /\ watchdog = [pc |-> "none", i |-> 0, msecs |-> 0]
  /\ af = NoLocals
  /\ at_call = NewCrossword
  /\ stop_called = FALSE

NoAction == CrosswordActionGroup(0, << >>)

Ids(stack) == {stack[k].id : k \in DOMAIN stack}

EditOps == {"set", "set_slot", "clear_slot", "clear_all_atoms"}

(***************************************************************************)
(* Inputs of the user's operations.                                        *)
(***************************************************************************)
EditCoords == {Coord(1, 1)}

EditClueStarts == {Coord(0, 0)}

BarrierCoords == {Coord(1, 1)}

\* The word BA...A of length n.
FillWords(n) == {[i \in 1 .. n |-> IF i = 1 THEN 2 ELSE 1]}

InitEdit ==
  /\ crossword = NewCrossword
  /\ next_id = 1
  /\ op = "new"
  /\ prev_op = "new"
  /\ ret = FALSE
  /\ discarded = {}
  /\ subject = NoAction
  /\ origin = NewCrossword
  /\ query = NoCall
  /\ answer = << >>
  /\ loader = NoLoader
  /\ db = NewWordDatabase
  /\ NoSearch

\* What every operation that pushes an action does besides changing the crossword.
Pushed(name, cw) ==
  /\ ~crossword.tripped
  /\ next_id <= MaxActions
  /\ crossword' = cw
  /\ next_id' = next_id + 1
  /\ op' = name
  /\ prev_op' = op
  /\ ret' = FALSE
  /\ discarded' = discarded \cup (Ids(crossword.action_stack_.stack_)
                                   \ Ids(cw.action_stack_.stack_))
  /\ UNCHANGED <<invert_vars, call_vars, search_vars>>

DoSet ==
  \E val \in Atoms, coord \in EditCoords :
    /\ InBounds(crossword, coord)
    /\ ~Get(crossword, coord).is_barrier
    /\ Pushed("set", Set(crossword, next_id, val, coord))

DoSetClue ==
  \E i \in DOMAIN Clues(crossword) :
    /\ Clues(crossword)[i].start_ \in EditClueStarts
    /\ \E word \in FillWords(Clues(crossword)[i].size_) :
         /\ FitsWord(Clues(crossword)[i], word)
         /\ Pushed("set_slot", SetClue(crossword, next_id, Clues(crossword)[i], word))

DoClearClue ==
  \E i \in DOMAIN Clues(crossword) :
    /\ Clues(crossword)[i].start_ \in EditClueStarts
    /\ Pushed("clear_slot", ClearClue(crossword, next_id, Clues(crossword)[i]))

DoClearAtoms == Pushed("clear_all_atoms", ClearAtoms(crossword, next_id))

DoUndo ==
  /\ ~crossword.tripped
  /\ crossword' = Undo(crossword).cw
  /\ ret' = Undo(crossword).ret
  /\ op' = "undo"
  /\ prev_op' = op
  /\ UNCHANGED <<next_id, discarded>>
  /\ UNCHANGED <<invert_vars, call_vars, search_vars>>

DoRedo ==
  /\ ~crossword.tripped
  /\ crossword' = Redo(crossword).cw
  /\ ret' = Redo(crossword).ret
  /\ op' = "redo"
  /\ prev_op' = op
  /\ UNCHANGED <<next_id, discarded>>
  /\ UNCHANGED <<invert_vars, call_vars, search_vars>>

DoToggleBarrier ==
  \E coord \in BarrierCoords :
    /\ ~crossword.tripped
    /\ InBounds(crossword, coord)
    /\ crossword' = ToggleBarrier(crossword, coord, TRUE)
    /\ op' = "toggle_barrier"
    /\ prev_op' = op
    /\ next_id <= MaxActions
    /\ next_id' = next_id + 1
    /\ UNCHANGED <<ret, discarded>>
    /\ UNCHANGED <<invert_vars, call_vars, search_vars>>

NextEdit ==
  \/ DoSet
  \/ DoSetClue
  \/ DoClearClue
  \/ DoClearAtoms
  \/ DoUndo
  \/ DoRedo
  \/ DoToggleBarrier

Spec == InitEdit /\ [][NextEdit]_vars

(***************************************************************************)
(* Apply and Invert of one action on an arbitrary grid.                    *)
(***************************************************************************)
InvertCoords == {Coord(0, 0), Coord(0, 1)}

\* NewCrossword with the cells of InvertCoords holding vals.
RECURSIVE GridWith(_, _)
GridWith(vals, todo) ==
  IF todo = {} THEN NewCrossword
  ELSE LET c == CHOOSE x \in todo : TRUE
       IN Set_(GridWith(vals, todo \ {c}), vals[c], c)

SubjectParts ==
  {CrosswordSetAction(0, 1, o, c) : o \in {kEMPTY_CODE, 2}, c \in InvertCoords}

SubjectActions ==
  {CrosswordSetAction(0, n, o, c) : n \in Atoms, o \in Atoms, c \in InvertCoords}
    \cup {CrosswordActionGroup(0, <<a, b>>) : a \in SubjectParts, b \in SubjectParts}

InitInvert ==
  /\ crossword \in {GridWith(vals, InvertCoords) : vals \in [InvertCoords -> Atoms]}
  /\ origin = crossword
  /\ query = NoCall
  /\ answer = << >>
  /\ loader = NoLoader
  /\ subject \in SubjectActions
  /\ next_id = 1
  /\ op = "new"
  /\ prev_op = "new"
  /\ ret = FALSE
  /\ discarded = {}
  /\ db = NewWordDatabase
  /\ NoSearch

ApplySubject ==
  /\ op = "new"
  /\ crossword' = ActionApply(crossword, subject)
  /\ op' = "apply"
  /\ prev_op' = op
  /\ UNCHANGED <<next_id, ret, discarded, invert_vars, call_vars, search_vars>>

InvertSubject ==
  /\ op = "apply"
  /\ crossword' = ActionInvert(crossword, subject)
  /\ op' = "invert"
  /\ prev_op' = op
  /\ UNCHANGED <<next_id, ret, discarded, invert_vars, call_vars, search_vars>>

NextInvert ==
  \/ ApplySubject
  \/ InvertSubject

SpecInvert == InitInvert /\ [][NextInvert]_vars

(***************************************************************************)
(* The word index and the oracle, called directly: entries are added in    *)
(* any order, duplicates included, and the trie and the oracle are asked.  *)
(***************************************************************************)
\* The entries that are added: words of one, two and three letters, one
\* of them with either score.
IndexEntries ==
  {DatabaseEntry(w, 100, 0) : w \in {<<1>>, <<1, 2>>, <<1, 1, 2>>, <<1, 2, 2>>}}
    \cup {DatabaseEntry(<<1, 1, 2>>, 1, 0)}

\* The partial words the trie is asked for: every word of 1 or 2 atoms, and
\* the words of 3 atoms with A or nothing first and B or nothing last.
Partials ==
  UNION {[1 .. n -> Atoms] : n \in 1 .. 2}
    \cup {<<a, b, c>> : a \in {kEMPTY_CODE, 1}, b \in Atoms, c \in {kEMPTY_CODE, 2}}

Scores == {1, 100}

\* The clue lists handed to the oracle: those of a 3 x 3 puzzle with the
\* middle row barred, whose two rows hold the words top and bottom; a row
\* of lock[k] = TRUE had its cells locked before the clue structure was
\* last populated.
OracleClues ==
  LET Rows == {<<0, 0, 0>>, <<1, 0, 0>>, <<1, 1, 2>>, <<1, 2, 2>>}
      RECURSIVE Typed(_, _, _, _)
      Typed(cw, row, word, k) ==
        IF k > 3 THEN cw
        ELSE Typed(IF IsEmptyAtom(word[k]) THEN cw
                   ELSE Set(cw, 0, word[k], Coord(row, k - 1)), row, word, k + 1)
      RECURSIVE LockedRow(_, _, _)
      LockedRow(cw, row, k) ==
        IF k > 3 THEN cw ELSE LockedRow(LockCell(cw, Coord(row, k - 1), TRUE), row, k + 1)
      Bars == ToggleBarrier(ToggleBarrier(SetDimensions(NewCrossword, 3, 3),
                Coord(1, 0), TRUE), Coord(1, 1), TRUE)
      Grid(top, bottom, lock) ==
        LET typed == Typed(Typed(Bars, 0, top, 1), 2, bottom, 1)
            one == IF lock[1] THEN LockedRow(typed, 0, 1) ELSE typed
            two == IF lock[2] THEN LockedRow(one, 2, 1) ELSE one
        IN SetDimensions(two, 3, 3)
  IN {Clues(Grid(top, bottom, [k \in 1 .. 2 |-> lock])) :
        top \in Rows, bottom \in {<<0, 0, 0>>, <<1, 1, 2>>}, lock \in BOOLEAN}

InitIndex ==
  /\ crossword = NewCrossword
  /\ db = LoadFromFile(NewWordDatabase, [is_open |-> TRUE, lines |-> << >>])
  /\ next_id = 1
  /\ op = "new"
  /\ prev_op = "new"
  /\ ret = FALSE
  /\ discarded = {}
  /\ subject = NoAction
  /\ origin = NewCrossword
  /\ query = NoCall
  /\ answer = << >>
  /\ loader = NoLoader
  /\ NoSearch

\* db.AddEntry(entry, frequency_score, letter_score)
DoAddEntry ==
  \E e \in IndexEntries :
    /\ next_id <= MaxEntries
    /\ next_id' = next_id + 1
    /\ db' = AddEntry(db, e.entry, e.frequency_score, e.letter_score)
    /\ query' = [name |-> "add_entry"]
    /\ answer' = << >>
    /\ UNCHANGED loader
    /\ UNCHANGED <<crossword, op, prev_op, ret, discarded, invert_vars, params, pc,
                   stop_searching, done_searching, watchdog, af, at_call, stop_called>>

\* trie_.Find(partial) on the trie of the words of partial's length.
DoFind ==
  \E partial \in Partials :
    /\ query' = [name |-> "find", partial |-> partial]
    /\ answer' = Find(db.databases_[Len(partial)].trie_, partial, 1)
    /\ UNCHANGED loader
    /\ UNCHANGED <<edit_vars, invert_vars, search_vars>>

\* IsInvalidPartial(all_clues, db, score_min); fresh tells that no partial
\* word was cached when it was called.
DoIsInvalidPartial ==
  \E all_clues \in OracleClues, score_min \in Scores :
    \E o \in IsInvalidPartial(all_clues, db, score_min) :
      /\ query' = [name |-> "oracle", all_clues |-> all_clues, score_min |-> score_min,
                   fresh |-> (db = FlushCaches(db))]
      /\ answer' = o.ret
      /\ UNCHANGED loader
      /\ db' = o.db
      /\ UNCHANGED <<edit_vars, invert_vars, params, pc, stop_searching, done_searching,
                     watchdog, af, at_call, stop_called>>

\* db.FlushCaches()
DoFlushCaches ==
  /\ db # FlushCaches(db)
  /\ db' = FlushCaches(db)
  /\ query' = [name |-> "flush"]
  /\ answer' = << >>
  /\ UNCHANGED loader
  /\ UNCHANGED <<edit_vars, invert_vars, params, pc, stop_searching, done_searching,
                 watchdog, af, at_call, stop_called>>

NextIndex ==
  \/ DoAddEntry
  \/ DoFind
  \/ DoIsInvalidPartial
  \/ DoFlushCaches

SpecIndex == InitIndex /\ [][NextIndex]_vars

(***************************************************************************)
(* HasSolution called directly, between AddEntry and FlushCaches.  query    *)
(* keeps the history the calls have since the caches were last empty:       *)
(* uses, the scores asked with; stale, an entry was added while a cache     *)
(* held something; evicted, an insert found the cache full; hit, the last   *)
(* call found its partial word in the cache.                                *)
(***************************************************************************)
\* The slots asked about: the top row of a new puzzle with A or nothing
\* typed first and B or nothing typed last.
Slots ==
  {Clues(LET one == IF IsEmptyAtom(a) THEN NewCrossword
                    ELSE Set(NewCrossword, 0, a, Coord(0, 0))
         IN IF IsEmptyAtom(c) THEN one ELSE Set(one, 0, c, Coord(0, 2)))[1] :
     a \in {kEMPTY_CODE, 1}, c \in {kEMPTY_CODE, 2}}

\* db.HasSolution(clue, score_min)
DoHasSolution ==
  \E clue \in Slots, score_min \in Scores :
    \E o \in HasSolution(db, clue, score_min) :
      LET cache == db.databases_[clue.size_].partial_word_cache_
          miss == ToWord(clue) \notin DOMAIN cache
          before == IF query.name = "has_solution"
                    THEN [uses |-> query.uses, stale |-> query.stale,
                          evicted |-> query.evicted]
                    ELSE [uses |-> {},
                          stale |-> (query.name = "add_entry" /\ db # FlushCaches(db)),
                          evicted |-> FALSE]
      IN /\ query' = [name |-> "has_solution", clue |-> clue, score_min |-> score_min,
                      uses |-> before.uses \cup {score_min},
                      stale |-> before.stale,
                      evicted |-> (before.evicted
                                     \/ (miss /\ Cardinality(DOMAIN cache) >= max_elements)),
                      hit |-> ~miss]
         /\ answer' = o.ret
         /\ db' = o.db
         /\ UNCHANGED <<edit_vars, invert_vars, loader, params, pc, stop_searching,
                        done_searching, watchdog, af, at_call, stop_called>>

NextCache == DoAddEntry \/ DoHasSolution \/ DoFlushCaches

SpecCache == InitIndex /\ [][NextCache]_vars

(***************************************************************************)
(* The grid: barriers, dimensions and locks are edited between content     *)
(* edits, undo and redo.                                                   *)
(***************************************************************************)
GridCoords == {Coord(0, 1)}

\* The puzzle as constructed, or with its first row filled, its cells
\* locked and the dimensions set again after that.
InitGrid ==
  /\ crossword \in
       LET RECURSIVE LockedRow(_, _)
           LockedRow(cw, k) ==
             IF k > cw.width_ THEN cw
             ELSE LockedRow(LockCell(cw, Coord(0, k - 1), TRUE), k + 1)
           filled == SetClue(NewCrossword, 0, Clues(NewCrossword)[1],
                             CHOOSE word \in FillWords(kSTART_WIDTH) : TRUE)
       IN {NewCrossword,
           SetDimensions(LockedRow(filled, 1), kSTART_HEIGHT, kSTART_WIDTH)}
  /\ next_id = 1
  /\ op = "new"
  /\ prev_op = "new"
  /\ ret = FALSE
  /\ discarded = {}
  /\ subject = NoAction
  /\ origin = NewCrossword
  /\ query = NoCall
  /\ answer = << >>
  /\ loader = NoLoader
  /\ db = NewWordDatabase
  /\ NoSearch

\* What every operation on barriers, dimensions and locks does besides
\* changing the crossword.
Edited(name, cw) ==
  /\ ~crossword.tripped
  /\ next_id <= MaxActions
  /\ crossword' = cw
  /\ next_id' = next_id + 1
  /\ op' = name
  /\ prev_op' = op
  /\ UNCHANGED <<ret, discarded>>
  /\ UNCHANGED <<invert_vars, call_vars, search_vars>>

DoSetBarrier ==
  \E val \in BOOLEAN, coord \in GridCoords, enforce_symmetry \in BOOLEAN :
    /\ InBounds(crossword, coord)
    /\ Edited("set_barrier", SetBarrier(crossword, val, coord, enforce_symmetry))

DoSetDimensions ==
  \E height \in (kMIN_CLUE .. kMAX_DIM), width \in (kMIN_CLUE .. kMAX_DIM) :
    Edited("set_dimensions", SetDimensions(crossword, height, width))

DoLockCell ==
  \E coord \in GridCoords, value \in BOOLEAN :
    /\ InBounds(crossword, coord)
    /\ Edited("lock_cell", LockCell(crossword, coord, value))

DoToggleLockCell ==
  \E coord \in GridCoords :
    /\ InBounds(crossword, coord)
    /\ Edited("toggle_lock", ToggleLockCell(crossword, coord))

NextGrid ==
  \/ DoSetBarrier
  \/ DoToggleBarrier
  \/ DoSetDimensions
  \/ DoLockCell
  \/ DoToggleLockCell
  \/ DoSet
  \/ DoSetClue
  \/ DoClearClue
  \/ DoClearAtoms
  \/ DoUndo
  \/ DoRedo

SpecGrid == InitGrid /\ [][NextGrid]_vars

(***************************************************************************)
(* Puzzle files.  A string is a sequence of its characters.                *)
(***************************************************************************)
\* kATOM_MAPPING, for the atoms of Atoms: the string of code k is at k + 1.
kATOM_MAPPING == <<"", "A", "B">>

DELIM == ","

BARRIER == "-"

BLANK == " "

\* Atom(value): the code whose string is value; 0 where the source asserts.
Atom(value) ==
  IF \E k \in DOMAIN kATOM_MAPPING : kATOM_MAPPING[k] = value
  THEN (CHOOSE k \in DOMAIN kATOM_MAPPING : kATOM_MAPPING[k] = value) - 1
  ELSE kEMPTY_CODE

\* std::to_string of a non-negative number: its decimal digits.
RECURSIVE to_string(_)
to_string(n) ==
  LET digit == <<"0", "1", "2", "3", "4", "5", "6", "7", "8", "9">>[(n % 10) + 1]
  IN IF n < 10 THEN <<digit>> ELSE Append(to_string(n \div 10), digit)

\* std::stoi of a string of decimal digits.
RECURSIVE stoi(_)
stoi(str) ==
  LET Value(ch) == CHOOSE v \in 0 .. 9 : to_string(v) = <<ch>>
  IN IF str = << >> THEN 0
     ELSE 10 * stoi(SubSeq(str, 1, Len(str) - 1)) + Value(str[Len(str)])

\* Crossword::Serialize : the width, the height, and one line per live row
\* with a token and a delimiter per cell.
Serialize(cw) ==
  LET Token(cell) ==
        IF cell.is_barrier THEN BARRIER
        ELSE IF kATOM_MAPPING[cell.contents + 1] = "" THEN BLANK
        ELSE kATOM_MAPPING[cell.contents + 1]
      RECURSIVE RowString(_, _)
      RowString(i, j) ==
        IF j >= cw.width_ THEN << >>
        ELSE <<Token(Get(cw, Coord(i, j))), DELIM>> \o RowString(i, j + 1)
  IN <<to_string(cw.width_), to_string(cw.height_)>>
       \o [i \in 1 .. cw.height_ |-> RowString(i - 1, 0)]

\* Crossword::Unserialize : the live cells lose their barriers and their
\* contents, the dimensions are set, and the lines are read cell by cell.
\* Nothing more is done once an assert has failed.
Unserialize(cw, id, lines) ==
  LET RECURSIVE ClearBarriers(_, _)
      ClearBarriers(c, k) ==
        IF c.tripped \/ k > Len(LiveCoordSeq(cw)) THEN c
        ELSE ClearBarriers(SetBarrier(c, FALSE, LiveCoordSeq(cw)[k], FALSE), k + 1)
      cleared == ClearAtoms(ClearBarriers(cw, 1), id)
      w == stoi(lines[1])
      h == stoi(lines[2])
      sized == [SetDimensions(cleared, h, w) EXCEPT
                  !.tripped = @ \/ ~(h <= kMAX_DIM /\ w <= kMAX_DIM /\ h > 2 /\ w > 2)
                                \/ Len(lines) < 2 + h]
      RECURSIVE ReadLine(_, _, _, _)
      ReadLine(c, i, k, col) ==
        LET val == lines[i][k]
            coord == Coord(i - 3, col)
        IN IF c.tripped \/ k > Len(lines[i]) THEN c
           ELSE IF val = DELIM THEN ReadLine(c, i, k + 1, col)
           ELSE IF val = BARRIER
                THEN ReadLine(SetBarrier(c, TRUE, coord, FALSE), i, k + 1, col + 1)
           ELSE IF val # BLANK
                THEN ReadLine([Set(c, id, Atom(val), coord) EXCEPT
                                 !.tripped = @ \/ val \notin Range(kATOM_MAPPING)],
                              i, k + 1, col + 1)
           ELSE ReadLine(c, i, k + 1, col + 1)
      RECURSIVE ReadLines(_, _)
      ReadLines(c, i) ==
        IF c.tripped \/ i >= 3 + h THEN c ELSE ReadLines(ReadLine(c, i, 1, 0), i + 1)
  IN ReadLines(sized, 3)

\* The puzzles whose files are opened: the new puzzle, a wider one, one of
\* barriers only, and one with a barrier and both letters.
SavedPuzzles ==
  LET RECURSIVE Barred(_, _)
      Barred(cw, k) ==
        IF cw.tripped \/ k > Len(LiveCoordSeq(cw)) THEN cw
        ELSE Barred(SetBarrier(cw, TRUE, LiveCoordSeq(cw)[k], FALSE), k + 1)
      ring == ToggleBarrier(NewCrossword, Coord(1, 1), TRUE)
  IN {NewCrossword,
      SetDimensions(NewCrossword, kSTART_HEIGHT, kMAX_DIM),
      Barred(NewCrossword, 1),
      Set(Set(ring, 0, 1, Coord(0, 0)), 0, 2, Coord(0, 1))}

\* The puzzle as constructed, or one that was wider when its first row was
\* filled and its last column got a barrier, and was made narrower after.
InitFile ==
  /\ crossword \in
       LET wide == SetDimensions(NewCrossword, kSTART_HEIGHT, kMAX_DIM)
           filled == SetClue(wide, 0, Clues(wide)[1],
                             CHOOSE word \in FillWords(kMAX_DIM) : TRUE)
           barred == SetBarrier(filled, TRUE, Coord(1, kMAX_DIM - 1), FALSE)
       IN {NewCrossword, SetDimensions(barred, kSTART_HEIGHT, kSTART_WIDTH)}
  /\ next_id = 1
  /\ op = "new"
  /\ prev_op = "new"
  /\ ret = FALSE
  /\ discarded = {}
  /\ subject = NoAction
  /\ origin = NewCrossword
  /\ query = NoCall
  /\ answer = << >>
  /\ loader = NoLoader
  /\ db = NewWordDatabase
  /\ NoSearch

\* What a file is meant to keep of the puzzle it was written from.
Saved(cw) == [height_ |-> cw.height_, width_ |-> cw.width_, grid_ |-> cw.grid_]

DoSerialize ==
  /\ ~crossword.tripped
  /\ query' = [name |-> "serialize", g |-> Saved(crossword)]
  /\ answer' = Serialize(crossword)
  /\ UNCHANGED loader
  /\ UNCHANGED <<edit_vars, invert_vars, search_vars>>

\* The file of a saved puzzle, or the file written last, is opened.
DoUnserialize ==
  \E file \in {[g |-> Saved(g), lines |-> Serialize(g)] : g \in SavedPuzzles}
               \cup (IF query.name = "serialize"
                      THEN {[g |-> query.g, lines |-> answer]} ELSE {}) :
    /\ ~crossword.tripped
    /\ next_id <= MaxActions
    /\ crossword' = Unserialize(crossword, next_id, file.lines)
    /\ query' = [name |-> "unserialize", g |-> file.g]
    /\ answer' = file.lines
    /\ UNCHANGED loader
    /\ next_id' = next_id + 1
    /\ op' = "unserialize"
    /\ prev_op' = op
    /\ UNCHANGED <<ret, discarded, invert_vars, search_vars>>

NextFile ==
  \/ DoSerialize
  \/ DoUnserialize
  \/ DoSetDimensions
  \/ DoSetBarrier
  \/ DoSet

SpecFile == InitFile /\ [][NextFile]_vars

(***************************************************************************)
(* Autofill, its watchdog thread, and the caller's StopAutofill.           *)
(***************************************************************************)
Word3(a, b, c) == <<a, b, c>>

\* A database whose file had no lines, and the words then added to it:
\* AAB, ABA, BAB with a high score and ABB with the lowest.
Dictionary ==
  AddEntry(AddEntry(AddEntry(AddEntry(
    LoadFromFile(NewWordDatabase, [is_open |-> TRUE, lines |-> << >>]),
    Word3(1, 1, 2), 100, 100), Word3(1, 2, 1), 100, 100),
    Word3(2, 1, 2), 100, 100), Word3(1, 2, 2), 1, 100)

\* A 3 x 3 puzzle with a barrier in the middle: four clues around a ring.
Ring == ToggleBarrier(SetDimensions(NewCrossword, 3, 3), Coord(1, 1), TRUE)

\* What the user did to the ring before calling Autofill: typed a letter in
\* the top left cell (or typed it and took it back), locked that cell.
Puzzle(typed, undone, locked) ==
  LET set == IF IsEmptyAtom(typed) THEN Ring ELSE Set(Ring, 1, typed, Coord(0, 0))
      back == IF undone THEN Undo(set).cw ELSE set
  IN IF locked THEN ToggleLockCell(back, Coord(0, 0)) ELSE back

Puzzles == {Puzzle(typed, undone, locked) :
              typed \in Atoms, undone \in BOOLEAN, locked \in BOOLEAN}

ParamChoices ==
  {[DefaultParams EXCEPT !.entropy = e, !.score_min = m,
                         !.branching_factor_limit = l,
                         !.rollback = r, !.seconds_limit = 1] :
     e \in {0, 50}, m \in {1, 2}, l \in {kNO_NUMBER}, r \in BOOLEAN}

InitAutofill ==
  /\ crossword \in Puzzles
  /\ params \in ParamChoices
  /\ db = Dictionary
  /\ next_id = 1
  /\ op = "new"
  /\ prev_op = "new"
  /\ ret = FALSE
  /\ discarded = {}
  /\ subject = NoAction
  /\ origin = NewCrossword
  /\ query = NoCall
  /\ answer = << >>
  /\ loader = NoLoader
  /\ pc = "idle"
  /\ stop_searching = FALSE
  /\ done_searching = FALSE
  /\ watchdog = [pc |-> "none", i |-> 0, msecs |-> 0]
  /\ af = NoLocals
  /\ at_call = NewCrossword
  /\ stop_called = FALSE

\* Autofill is entered: its preconditions (the asserts) hold, the last of
\* which runs the oracle at score 1 and may leave entries in the cache.
AutofillCall ==
  /\ pc \in {"idle", "thread"}
  /\ ~crossword.tripped
  /\ db.is_finished_loading_
  /\ IsValidPattern(crossword)
  /\ \E o \in IsInvalidPartial(Clues(crossword), db, 1) :
       /\ o.ret = "Solvable"
       /\ db' = o.db
  /\ pc' = "entered"
  /\ at_call' = crossword
  /\ UNCHANGED <<edit_vars, invert_vars, call_vars, params, stop_searching, done_searching,
                 watchdog, af, stop_called>>

\* The flags are reset, the watchdog thread is started, and the filled cells
\* are locked.
AutofillReset ==
  /\ pc = "entered"
  /\ stop_searching' = FALSE
  /\ done_searching' = FALSE
  /\ watchdog' = [pc |-> "sleep", i |-> 0,
                  msecs |-> ToInt(params.seconds_limit * MsPerSecond)]
  /\ crossword' = LockFilled(crossword).cw
  /\ af' = [NoLocals EXCEPT !.locked_coords = LockFilled(crossword).locked_coords]
  /\ pc' = "outer"
  /\ UNCHANGED <<next_id, op, prev_op, ret, discarded, invert_vars, call_vars, db, params,
                 at_call, stop_called>>

\* The test of the outer loop and, when it passes, the start of an iteration.
AutofillOuter ==
  /\ pc = "outer"
  /\ IF ~af.found /\ ~stop_searching /\ params.score_min > 0
     THEN /\ db' = FlushCaches(db)
          /\ af' = [af EXCEPT
                      !.initial_depth = GetSize(crossword),
                      !.dfs_stack = <<DFSNode(CrosswordActionGroup(0, << >>),
                                              GetSize(crossword) + 1)>>,
                      !.complete_search = TRUE]
          /\ pc' = "dfs"
     ELSE /\ pc' = "finish"
          /\ UNCHANGED <<db, af>>
  /\ UNCHANGED <<edit_vars, invert_vars, call_vars, params, stop_searching, done_searching,
                 watchdog, at_call, stop_called>>

\* The body of the depth-first loop for the node on top of the stack: the
\* rollback, the node's action, the three leaf cases and the node's
\* children.  The outcomes differ by the order of the shuffled fills and by
\* the entry a full cache throws out.
Expand(cw, locals, parameters, database) ==
  LET node == locals.dfs_stack[Len(locals.dfs_stack)]
      relative_depth == node.depth
      popped == SubSeq(locals.dfs_stack, 1, Len(locals.dfs_stack) - 1)
      applied == ApplyAction(UndoTo(cw, relative_depth - 1), node.action)
      all_clues == Clues(applied)
      Leaf(o) == [crossword |-> applied, db |-> o.db,
                  af |-> [locals EXCEPT !.dfs_stack = popped], pc |-> "dfs"]
  IN UNION {IF o.ret # "Solvable"
            THEN {Leaf(o)}
            ELSE IF IsSolved(all_clues, o.db)
            THEN {[Leaf(o) EXCEPT !.af.found = TRUE, !.pc = "after"]}
            ELSE {[Leaf(o) EXCEPT !.af.dfs_stack =
                     popped \o [k \in 1 .. Len(adj) |->
                       DFSNode(adj[Len(adj) + 1 - k], relative_depth + 1)]] :
                    adj \in GetWordFills(applied, all_clues, parameters, o.db)} :
           o \in IsInvalidPartial(all_clues, database, parameters.score_min)}

\* One pass of the depth-first loop: its test, the cancellation check, and
\* the node on top of the stack.
AutofillStep ==
  /\ pc = "dfs"
  /\ IF af.dfs_stack = << >>
     THEN /\ pc' = "after"
          /\ UNCHANGED <<crossword, db, af>>
     ELSE IF stop_searching
     THEN /\ af' = [af EXCEPT !.complete_search = FALSE]
          /\ pc' = "after"
          /\ UNCHANGED <<crossword, db>>
     ELSE \E r \in Expand(crossword, af, params, db) :
            /\ crossword' = r.crossword
            /\ db' = r.db
            /\ af' = r.af
            /\ pc' = r.pc
  /\ UNCHANGED <<next_id, op, prev_op, ret, discarded, invert_vars, call_vars, params,
                 stop_searching, done_searching, watchdog, at_call, stop_called>>

\* The end of an iteration: the nodes left are deleted, a failed iteration
\* is rolled back, and the score and entropy decay.  rollback is the address
\* of params.rollback, and the address is what the if tests.
AutofillAfter ==
  /\ pc = "after"
  /\ LET rollback == [address_of |-> "params.rollback"]
     IN crossword' = IF ~af.found /\ rollback # [address_of |-> "NULL"]
                     THEN Rollback(crossword, af.initial_depth)
                     ELSE crossword
  /\ params' = [params EXCEPT
                  !.score_min = Decayed(@, params.score_min_decay),
                  !.entropy = Decayed(@, params.entropy_decay)]
  /\ pc' = "outer"
  /\ UNCHANGED <<next_id, op, prev_op, ret, discarded, invert_vars, call_vars, db, af,
                 stop_searching, done_searching, watchdog, at_call, stop_called>>

\* After the loop: the cells locked before the search are released and
\* done_searching is set.
AutofillFinish ==
  /\ pc = "finish"
  /\ crossword' = ReleaseLocks(crossword, af.locked_coords)
  /\ done_searching' = TRUE
  /\ pc' = "join"
  /\ UNCHANGED <<next_id, op, prev_op, ret, discarded, invert_vars, call_vars, db, params, af,
                 stop_searching, watchdog, at_call, stop_called>>

\* A return that does not wait for the watchdog thread.
AutofillLeave ==
  /\ pc = "join"
  /\ pc' = "returned"
  /\ UNCHANGED <<edit_vars, invert_vars, call_vars, db, params, stop_searching, done_searching,
                 watchdog, af, at_call, stop_called>>

\* stop_thread.join(), and the return.
AutofillJoin ==
  /\ pc = "join"
  /\ watchdog.pc = "exit"
  /\ pc' = "returned"
  /\ UNCHANGED <<edit_vars, invert_vars, call_vars, db, params, stop_searching, done_searching,
                 watchdog, af, at_call, stop_called>>

\* StopSearchingAfterTime: one pass of its loop.
WatchdogPoll ==
  /\ watchdog.pc = "sleep"
  /\ watchdog.i < watchdog.msecs
  /\ watchdog' = IF done_searching \/ stop_searching
                 THEN [watchdog EXCEPT !.pc = "exit"]
                 ELSE [watchdog EXCEPT !.i = @ + 1]
  /\ UNCHANGED <<edit_vars, invert_vars, call_vars, db, params, pc, stop_searching,
                 done_searching, af, at_call, stop_called>>

\* A watchdog that leaves at its deadline without calling StopAutofill().
WatchdogLeave ==
  /\ watchdog.pc = "sleep"
  /\ watchdog.i >= watchdog.msecs
  /\ watchdog' = [watchdog EXCEPT !.pc = "exit"]
  /\ UNCHANGED <<edit_vars, invert_vars, call_vars, db, params, pc, stop_searching,
                 done_searching, af, at_call, stop_called>>

\* StopSearchingAfterTime: the loop is over, StopAutofill() is called.
WatchdogFire ==
  /\ watchdog.pc = "sleep"
  /\ watchdog.i >= watchdog.msecs
  /\ stop_searching' = TRUE
  /\ watchdog' = [watchdog EXCEPT !.pc = "exit"]
  /\ UNCHANGED <<edit_vars, invert_vars, call_vars, db, params, pc, done_searching, af,
                 at_call, stop_called>>

\* Crossword::StopAutofill, called by the user's thread at any time.
StopAutofill ==
  /\ stop_searching' = TRUE
  /\ stop_called' = (stop_called \/ pc \in {"entered", "outer", "dfs", "after", "finish"})
  /\ UNCHANGED <<edit_vars, invert_vars, call_vars, db, params, pc, done_searching, watchdog,
                 af, at_call>>

NextAutofill ==
  \/ AutofillCall
  \/ AutofillReset
  \/ AutofillOuter
  \/ AutofillStep
  \/ AutofillAfter
  \/ AutofillFinish
  \/ AutofillJoin
  \/ WatchdogPoll
  \/ WatchdogFire
  \/ StopAutofill

SpecAutofill == InitAutofill /\ [][NextAutofill]_vars

(***************************************************************************)
(* Autofill with a dictionary in which a word of the lowest score is the    *)
(* only one that begins with B, started at a score_min above that score.    *)
(***************************************************************************)
InitFlush ==
  /\ crossword \in Puzzles
  /\ params = [DefaultParams EXCEPT !.entropy = 0, !.score_min = 2, !.seconds_limit = 1]
  /\ db = AddEntry(AddEntry(AddEntry(AddEntry(
            LoadFromFile(NewWordDatabase, [is_open |-> TRUE, lines |-> << >>]),
            Word3(1, 1, 2), 100, 100), Word3(1, 2, 1), 100, 100),
            Word3(2, 1, 2), 1, 100), Word3(1, 2, 2), 100, 100)
  /\ next_id = 1
  /\ op = "new"
  /\ prev_op = "new"
  /\ ret = FALSE
  /\ discarded = {}
  /\ subject = NoAction
  /\ origin = NewCrossword
  /\ query = NoCall
  /\ answer = << >>
  /\ loader = NoLoader
  /\ pc = "idle"
  /\ stop_searching = FALSE
  /\ done_searching = FALSE
  /\ watchdog = [pc |-> "none", i |-> 0, msecs |-> 0]
  /\ af = NoLocals
  /\ at_call = NewCrossword
  /\ stop_called = FALSE

SpecFlush == InitFlush /\ [][NextAutofill]_vars

(***************************************************************************)
(* Autofill with a branching factor limit.                                  *)
(***************************************************************************)
InitLimited ==
  /\ crossword \in Puzzles
  /\ params \in {[DefaultParams EXCEPT !.entropy = 0, !.score_min = 1,
                                       !.branching_factor_limit = l,
                                       !.rollback = r, !.seconds_limit = 1] :
                   l \in {1, 2}, r \in BOOLEAN}
  /\ db = Dictionary
  /\ next_id = 1
  /\ op = "new"
  /\ prev_op = "new"
  /\ ret = FALSE
  /\ discarded = {}
  /\ subject = NoAction
  /\ origin = NewCrossword
  /\ query = NoCall
  /\ answer = << >>
  /\ loader = NoLoader
  /\ pc = "idle"
  /\ stop_searching = FALSE
  /\ done_searching = FALSE
  /\ watchdog = [pc |-> "none", i |-> 0, msecs |-> 0]
  /\ af = NoLocals
  /\ stop_called = FALSE
  /\ at_call = NewCrossword

SpecLimited == InitLimited /\ [][NextAutofill]_vars

(***************************************************************************)
(* The user's way to Autofill: CrosswordApp::OnAutofill, which starts      *)
(* AutofillThreadFunc, which calls Autofill with the default parameters.   *)
(***************************************************************************)
\* The puzzles on the screen when the user chooses Autofill, all 3 x 3:
\* Corners has only its four corners open (no clue at all); BadPattern has
\* two opposite corners barred (runs of two cells); Stuck is the ring with
\* BB typed at the start of its top clue, which no word fits; Misspelt is
\* the ring with a word typed that the dictionary does not hold; OneRow has
\* only its top row open (one clue).
UIPuzzles ==
  LET RECURSIVE Barred(_, _)
      Barred(cw, cells) ==
        IF cells = << >> THEN cw
        ELSE Barred(SetBarrier(cw, TRUE, cells[1], FALSE), Tail(cells))
      Blank == SetDimensions(NewCrossword, 3, 3)
      Corners ==
        ToggleBarrier(ToggleBarrier(ToggleBarrier(Blank,
          Coord(0, 1), TRUE), Coord(1, 0), TRUE), Coord(1, 1), TRUE)
      BadPattern == ToggleBarrier(Blank, Coord(0, 0), TRUE)
      Stuck == Set(Set(Ring, 1, 2, Coord(0, 0)), 2, 2, Coord(0, 1))
      Misspelt == Set(Stuck, 3, 2, Coord(0, 2))
      OneRow ==
        Barred(Blank, <<Coord(1, 0), Coord(1, 1), Coord(1, 2),
                        Coord(2, 0), Coord(2, 1), Coord(2, 2)>>)
  IN {Corners, BadPattern, Stuck, Misspelt, OneRow}

\* The word list of the application was read, or its file was not there.
InitUI ==
  /\ crossword \in UIPuzzles
  /\ db \in {Dictionary, LoadFromFile(NewWordDatabase, [is_open |-> FALSE, lines |-> << >>])}
  /\ params = DefaultParams
  /\ next_id = 1
  /\ op = "new"
  /\ prev_op = "new"
  /\ ret = FALSE
  /\ discarded = {}
  /\ subject = NoAction
  /\ origin = NewCrossword
  /\ query = NoCall
  /\ answer = << >>
  /\ loader = NoLoader
  /\ pc = "idle"
  /\ stop_searching = FALSE
  /\ done_searching = FALSE
  /\ watchdog = [pc |-> "none", i |-> 0, msecs |-> 0]
  /\ af = NoLocals
  /\ at_call = NewCrossword
  /\ stop_called = FALSE

\* CrosswordApp::OnAutofill.  WaitForLock returns once no load is running,
\* whether or not a load has finished; the caches are flushed; the oracle is
\* asked at score 1.  op records the outcome: an error dialog, or the start
\* of the thread that calls Autofill.
OnAutofill ==
  /\ pc = "idle"
  /\ op = "new"
  /\ IsValidPattern(crossword) => (db.is_finished_loading_ \/ loader.lock = 0)
  /\ IF ~IsValidPattern(crossword)
     THEN /\ op' = "error"
          /\ UNCHANGED <<db, pc>>
     ELSE \E o \in IsInvalidPartial(Clues(crossword), FlushCaches(db), 1) :
            /\ db' = o.db
            /\ IF o.ret # "Solvable"
               THEN op' = "error" /\ pc' = pc
               ELSE op' = "thread" /\ pc' = "thread"
  /\ prev_op' = op
  /\ UNCHANGED <<crossword, next_id, ret, discarded, invert_vars, call_vars, params,
                 stop_searching, done_searching, watchdog, af, at_call, stop_called>>

\* Autofill is entered and one of its asserts fails: the process aborts.
AutofillAbort ==
  /\ pc \in {"idle", "thread"}
  /\ \/ ~db.is_finished_loading_
     \/ ~IsValidPattern(crossword)
     \/ \E o \in IsInvalidPartial(Clues(crossword), db, 1) : o.ret # "Solvable"
  /\ pc' = "aborted"
  /\ UNCHANGED <<edit_vars, invert_vars, call_vars, db, params, stop_searching, done_searching,
                 watchdog, af, at_call, stop_called>>

NextUI ==
  \/ OnAutofill
  \/ AutofillAbort
  \/ AutofillCall
  \/ AutofillReset
  \/ AutofillOuter
  \/ AutofillStep
  \/ AutofillAfter
  \/ AutofillFinish
  \/ AutofillJoin
  \/ WatchdogPoll
  \/ WatchdogFire
  \/ StopAutofill

SpecUI == InitUI /\ [][NextUI]_vars

(***************************************************************************)
(* The refresh of the grid during a search: UpdateGridThreadFunc posts      *)
(* GRID_REFRESH while is_searching, and the user's thread handles it.       *)
(***************************************************************************)
\* CrosswordApp::OnGridRefresh, that is UpdateGrid(): the cells are greyed
\* (answer is 2) when the pattern is not valid or the oracle, asked at score
\* 1, says Invalid.  query.tick tells one refresh from the next.
OnGridRefresh ==
  /\ pc \in {"thread", "entered", "outer", "dfs", "after", "finish", "join"}
  /\ ~crossword.tripped
  /\ IF ~IsValidPattern(crossword)
     THEN /\ answer' = 2
          /\ db' = db
     ELSE \E o \in IsInvalidPartial(Clues(crossword), db, 1) :
            /\ answer' = (IF o.ret = "Invalid" THEN 2 ELSE 0)
            /\ db' = o.db
  /\ query' = [name |-> "refresh",
               tick |-> IF query.name = "refresh" THEN 1 - query.tick ELSE 0]
  /\ UNCHANGED <<edit_vars, invert_vars, loader, params, pc, stop_searching, done_searching,
                 watchdog, af, at_call, stop_called>>

NextRefresh == NextAutofill \/ OnGridRefresh

\* The searches that are refreshed: those that shuffle nothing.
InitRefresh == InitAutofill /\ params.entropy = 0 /\ params.rollback

SpecRefresh == InitRefresh /\ [][NextRefresh]_vars

(***************************************************************************)
(* Autofill under fair scheduling of its two threads.  The parameters      *)
(* cover the ends of the documented ranges: decays of 0 and of 1, and a    *)
(* seconds_limit whose product with the milliseconds of a second does not  *)
(* fit an int.                                                             *)
(***************************************************************************)
InitTermination ==
  /\ crossword \in {Puzzle(typed, FALSE, FALSE) : typed \in Atoms}
  /\ params \in
       {[DefaultParams EXCEPT !.entropy = 0, !.score_min = m,
                              !.score_min_decay = d, !.entropy_decay = d,
                              !.rollback = r, !.seconds_limit = s] :
          m \in {1, 2}, d \in {Fraction(0, 1), Fraction(9, 10), Fraction(1, 1)},
          r \in BOOLEAN, s \in {1, 2 ^ (IntBits - 2)}}
  /\ db = Dictionary
  /\ next_id = 1
  /\ op = "new"
  /\ prev_op = "new"
  /\ ret = FALSE
  /\ discarded = {}
  /\ subject = NoAction
  /\ origin = NewCrossword
  /\ query = NoCall
  /\ answer = << >>
  /\ loader = NoLoader
  /\ pc = "idle"
  /\ stop_searching = FALSE
  /\ done_searching = FALSE
  /\ watchdog = [pc |-> "none", i |-> 0, msecs |-> 0]
  /\ af = NoLocals
  /\ at_call = NewCrossword
  /\ stop_called = FALSE

\* The thread inside Autofill keeps running and the watchdog thread is
\* scheduled: WF_vars(SearchThread) /\ WF_vars(WatchdogThread), with each
\* ENABLED written as the state predicate it is (the search thread is
\* inside Autofill and, at the join, the watchdog has left; the watchdog is
\* in its function).  Nothing is assumed of the caller's StopAutofill.
FairThreads ==
  LET SearchThread ==
        \/ AutofillReset
        \/ AutofillOuter
        \/ AutofillStep
        \/ AutofillAfter
        \/ AutofillFinish
        \/ AutofillJoin
      WatchdogThread ==
        \/ WatchdogPoll
        \/ WatchdogFire
      SearchEnabled ==
        \/ pc \in {"entered", "outer", "dfs", "after", "finish"}
        \/ pc = "join" /\ watchdog.pc = "exit"
      WatchdogEnabled == watchdog.pc = "sleep"
  IN /\ ([]<>(~SearchEnabled) \/ []<><<SearchThread>>_vars)
     /\ ([]<>(~WatchdogEnabled) \/ []<><<WatchdogThread>>_vars)

SpecAutofillFair == InitTermination /\ [][NextAutofill]_vars /\ FairThreads

(***************************************************************************)
(* Loading the dictionary.  LoadDeferred starts a detached thread that      *)
(* runs LoadThread.  A thread is its position in loader.threads.            *)
(***************************************************************************)
\* The files that are loaded: one that cannot be opened, one without lines
\* and two of one line.
Files ==
  {[is_open |-> FALSE, lines |-> << >>],
   [is_open |-> TRUE, lines |-> << >>],
   [is_open |-> TRUE, lines |-> <<[word |-> Word3(1, 1, 2), score |-> 100]>>],
   [is_open |-> TRUE, lines |-> <<[word |-> Word3(1, 2, 2), score |-> 50]>>]}

InitLoad ==
  /\ crossword = NewCrossword
  /\ next_id = 1
  /\ op = "new"
  /\ prev_op = "new"
  /\ ret = TRUE
  /\ discarded = {}
  /\ subject = NoAction
  /\ origin = NewCrossword
  /\ query = NoCall
  /\ answer = << >>
  /\ loader = NoLoader
  /\ db \in {NewWordDatabase, AddEntry(NewWordDatabase, Word3(1, 1, 2), 100, 100)}
            \cup {LoadFromFile(NewWordDatabase, file) : file \in Files}
  /\ NoSearch

\* The files whose words are new: not in the database and in no file a
\* thread is to load.  Loading them never leaves two entries of one
\* letter_score to std::sort.
NewFiles ==
  {file \in Files :
     \A k \in DOMAIN file.lines :
       /\ file.lines[k].word \notin DOMAIN db.databases_[Len(file.lines[k].word)].word_set_
       /\ \A t \in DOMAIN loader.threads :
            loader.threads[t].pc = "done"
              \/ \A j \in DOMAIN loader.threads[t].file.lines :
                   loader.threads[t].file.lines[j].word # file.lines[k].word}

\* LoadDeferred(filename)
DoLoadDeferred ==
  \E file \in NewFiles :
    /\ next_id <= MaxActions
    /\ next_id' = next_id + 1
    /\ db' = [db EXCEPT !.is_finished_loading_ = FALSE]
    /\ loader' = [loader EXCEPT !.threads = Append(@, [pc |-> "start", file |-> file])]
    /\ query' = [name |-> "load_deferred", file |-> file]
    /\ answer' = << >>
    /\ UNCHANGED <<crossword, op, prev_op, ret, discarded, invert_vars, params, pc,
                   stop_searching, done_searching, watchdog, af, at_call, stop_called>>

\* LoadFromFile(filename) called on the caller's thread.
DoLoadFromFile ==
  \E file \in NewFiles :
    /\ next_id <= MaxActions
    /\ next_id' = next_id + 1
    /\ db' = LoadFromFile(db, file)
    /\ query' = [name |-> "load_from_file", file |-> file]
    /\ answer' = << >>
    /\ UNCHANGED <<crossword, op, prev_op, ret, discarded, invert_vars, loader, params, pc,
                   stop_searching, done_searching, watchdog, af, at_call, stop_called>>

\* WaitForLock(): the lock_guard takes db_lock_ when it is free and the
\* function returns, releasing it.  answer is what IsFinishedLoading() tells
\* at the return.
DoWaitForLock ==
  /\ next_id <= MaxActions
  /\ loader.lock = 0
  /\ next_id' = next_id + 1
  /\ query' = [name |-> "wait_for_load"]
  /\ answer' = db.is_finished_loading_
  /\ UNCHANGED <<crossword, op, prev_op, ret, discarded, invert_vars, loader, search_vars>>

\* LoadThread(db, filename): the lock_guard takes db_lock_, then LoadFromFile
\* runs and the lock is released at the return.
LoadThread ==
  \E t \in DOMAIN loader.threads :
    \/ /\ loader.threads[t].pc = "start"
       /\ loader.lock = 0
       /\ loader' = [loader EXCEPT !.lock = t, !.threads[t].pc = "locked"]
       /\ UNCHANGED <<edit_vars, invert_vars, query, answer, search_vars>>
    \/ /\ loader.threads[t].pc = "locked"
       /\ db' = LoadFromFile(db, loader.threads[t].file)
       /\ loader' = [loader EXCEPT !.lock = 0, !.threads[t].pc = "done"]
       /\ UNCHANGED <<edit_vars, invert_vars, query, answer, params, pc, stop_searching,
                      done_searching, watchdog, af, at_call, stop_called>>

NextLoad == DoLoadDeferred \/ DoLoadFromFile \/ DoWaitForLock \/ LoadThread

SpecLoad == InitLoad /\ [][NextLoad]_vars

\* HasSolution is called before, between and after the loads.
NextStale == DoLoadFromFile \/ DoHasSolution

SpecStale == InitLoad /\ [][NextStale]_vars

(***************************************************************************)
(* Autofill called again after it has returned.                            *)
(***************************************************************************)
\* Autofill has returned to its caller, who may call it again; next_id
\* counts the calls.
AutofillReturn ==
  /\ pc = "returned"
  /\ next_id <= MaxActions
  /\ next_id' = next_id + 1
  /\ pc' = "idle"
  /\ UNCHANGED <<crossword, op, prev_op, ret, discarded, invert_vars, call_vars, db, params,
                 stop_searching, done_searching, watchdog, af, at_call, stop_called>>

NextAgain == NextAutofill \/ AutofillReturn

SpecAgain == InitFlush /\ [][NextAgain]_vars

(***************************************************************************)
(* The application: the handlers of the user's thread refuse to edit while  *)
(* is_searching, the search runs on its own thread, and so does a load.     *)
(***************************************************************************)
\* CrosswordApp::is_searching: set by OnAutofill before the threads are
\* started, cleared by AutofillThreadFunc after Autofill has returned.
is_searching ==
  pc \in {"thread", "entered", "outer", "dfs", "after", "finish", "join", "returned"}

\* The ring, empty or with a letter typed, and a dictionary loaded from a
\* file of one line.
InitEmbedder ==
  /\ crossword \in {Ring, Puzzle(1, FALSE, FALSE)}
  /\ db = LoadFromFile(NewWordDatabase,
                       [is_open |-> TRUE,
                        lines |-> <<[word |-> Word3(1, 1, 2), score |-> 100]>>])
  /\ params = [DefaultParams EXCEPT !.seconds_limit = 1]
  /\ next_id = 2
  /\ op = "new"
  /\ prev_op = "new"
  /\ ret = FALSE
  /\ discarded = {}
  /\ subject = NoAction
  /\ origin = NewCrossword
  /\ query = NoCall
  /\ answer = << >>
  /\ loader = NoLoader
  /\ pc = "idle"
  /\ stop_searching = FALSE
  /\ done_searching = FALSE
  /\ watchdog = [pc |-> "none", i |-> 0, msecs |-> 0]
  /\ af = NoLocals
  /\ at_call = NewCrossword
  /\ stop_called = FALSE

\* CrosswordApp::OnLoadDatabase, that is LoadDatabaseFromCSV: LoadDeferred.
OnLoadDatabase ==
  /\ ~is_searching
  /\ pc # "aborted"
  /\ DoLoadDeferred

OnUndo ==
  /\ ~is_searching
  /\ pc # "aborted"
  /\ DoUndo

OnRedo ==
  /\ ~is_searching
  /\ pc # "aborted"
  /\ DoRedo

\* AutofillThreadFunc: the call of Autofill, and is_searching = false once it
\* has returned.
AutofillThreadFunc ==
  \/ /\ pc = "thread"
     /\ AutofillCall \/ AutofillAbort
  \/ /\ pc = "returned"
     /\ pc' = "idle"
     /\ UNCHANGED <<edit_vars, invert_vars, call_vars, db, params, stop_searching,
                    done_searching, watchdog, af, at_call, stop_called>>

NextEmbedder ==
  \/ OnLoadDatabase
  \/ LoadThread
  \/ OnUndo
  \/ OnRedo
  \/ OnAutofill
  \/ AutofillThreadFunc
  \/ AutofillReset
  \/ AutofillOuter
  \/ AutofillStep
  \/ AutofillAfter
  \/ AutofillFinish
  \/ AutofillJoin
  \/ WatchdogPoll
  \/ WatchdogFire

SpecEmbedder == InitEmbedder /\ [][NextEmbedder]_vars

(***************************************************************************)
(* Properties of the action log.                                           *)
(***************************************************************************)
Contents(cw) == [c \in Coords |-> cw.grid_[c].contents]

Constraints(cw) == [i \in DOMAIN Clues(cw) |-> Clues(cw)[i].constraints_]

RECURSIVE ReplayFrom(_, _, _, _)
ReplayFrom(cw, stack, i, n) ==
  IF i > n THEN cw
  ELSE ReplayFrom(ActionApply(cw, stack[i]), stack, i + 1, n)

\* The initial grid after the actions of the prefix [0, index_) of the log.
Replayed(cw) ==
  ReplayFrom(NewCrossword, cw.action_stack_.stack_, 1, cw.action_stack_.index_)

\* C2: after any sequence of set, set_slot, clear_slot, clear_all_atoms, undo
\* and redo on a fresh engine, the contents of the cells are what applying
\* the actions of the log's prefix [0, index_), in order, to the initial grid
\* gives.
C2_CellsAreReplayOfPrefix == Contents(crossword) = Contents(Replayed(crossword))

\* An undo has brought back a filled cell and left a redo tail in the log.
C2_Witness ==
  /\ op = "undo"
  /\ ret
  /\ crossword.action_stack_.index_ >= 1
  /\ crossword.action_stack_.index_ < Len(crossword.action_stack_.stack_)
  /\ \E c \in Coords : ~IsEmptyAtom(crossword.grid_[c].contents)

\* C3: whenever a facade edit is made, in any reachable state, an undo() that
\* follows it at once returns true and restores the contents of every cell
\* and the mirrored constraints of every slot to what they were before the
\* edit.
C3_UndoRestoresEdit ==
  /\ [](op = "undo" /\ prev_op \in EditOps => ret)
  /\ [][op' \in EditOps =>
          /\ Undo(crossword').ret
          /\ Contents(Undo(crossword').cw) = Contents(crossword)
          /\ Constraints(Undo(crossword').cw) = Constraints(crossword)]_vars

\* An edit that emptied a filled cell has just been undone.
C3_Witness ==
  /\ op = "undo"
  /\ prev_op \in {"clear_slot", "clear_all_atoms"}
  /\ ret
  /\ ~IsEmptyAtom(crossword.grid_[Coord(0, 0)].contents)
  /\ ~IsEmptyAtom(Clues(crossword)[1].constraints_[1])

\* C5: a push made while index_ < len discards the entries [index_, len)
\* before it appends: afterwards len = index_ = the old index_ + 1, redo()
\* returns false, and no discarded action is ever applied or inverted again
\* by a later undo or redo.
C5_PushDiscardsRedoTail ==
  /\ [](Ids(crossword.action_stack_.stack_) \cap discarded = {})
  /\ [][(op' \in EditOps
          /\ crossword.action_stack_.index_ < Len(crossword.action_stack_.stack_)) =>
          /\ Len(crossword'.action_stack_.stack_) = crossword'.action_stack_.index_
          /\ crossword'.action_stack_.index_ = crossword.action_stack_.index_ + 1
          /\ ~Redo(crossword').ret
          /\ \A k \in crossword.action_stack_.index_ + 1 .. Len(crossword.action_stack_.stack_) :
               crossword.action_stack_.stack_[k].id \in discarded']_vars
  /\ [][(op' = "redo" /\ ret') =>
          crossword.action_stack_.stack_[crossword.action_stack_.index_ + 1].id
            \notin discarded]_vars
  /\ [][(op' = "undo" /\ ret') =>
          crossword.action_stack_.stack_[crossword.action_stack_.index_].id
            \notin discarded]_vars

\* The edit before the last redo() erased a redo tail, and the redo() failed.
C5_Witness ==
  /\ op = "redo"
  /\ prev_op \in EditOps
  /\ ~ret
  /\ discarded # {}
  /\ Len(crossword.action_stack_.stack_) = 1

\* C6: undo returns false and changes nothing exactly when index_ = 0, and
\* otherwise inverts stack[index_ - 1] and decrements index_; redo returns
\* false exactly when index_ = len, and otherwise applies stack[index_] and
\* increments index_; 0 <= index_ <= len always, and size() is index_.
C6_UndoRedoMoveTheIndex ==
  /\ [](/\ 0 <= crossword.action_stack_.index_
        /\ crossword.action_stack_.index_ <= Len(crossword.action_stack_.stack_)
        /\ GetSize(crossword) = crossword.action_stack_.index_)
  /\ [][op' = "undo" =>
          IF crossword.action_stack_.index_ = 0
          THEN ~ret' /\ crossword' = crossword
          ELSE /\ ret'
               /\ crossword'.action_stack_.index_ = crossword.action_stack_.index_ - 1
               /\ crossword'.action_stack_.stack_ = crossword.action_stack_.stack_
               /\ Contents(crossword') =
                    Contents(ActionInvert(crossword,
                      crossword.action_stack_.stack_[crossword.action_stack_.index_]))]_vars
  /\ [][op' = "redo" =>
          IF crossword.action_stack_.index_ = Len(crossword.action_stack_.stack_)
          THEN ~ret' /\ crossword' = crossword
          ELSE /\ ret'
               /\ crossword'.action_stack_.index_ = crossword.action_stack_.index_ + 1
               /\ crossword'.action_stack_.stack_ = crossword.action_stack_.stack_
               /\ Contents(crossword') =
                    Contents(ActionApply(crossword,
                      crossword.action_stack_.stack_[crossword.action_stack_.index_ + 1]))]_vars

\* The only entry of the log has been undone, with the redo tail kept.
C6_Witness ==
  /\ op = "undo"
  /\ ret
  /\ crossword.action_stack_.index_ = 0
  /\ Len(crossword.action_stack_.stack_) = 1
  /\ prev_op \in EditOps

\* The grid every cell of which the action writes holds the old value the
\* action recorded for it (the first one, when a group writes a cell twice).
BuiltFor(action, cw) ==
  IF action.kind = "set" THEN cw.grid_[action.coord_].contents = action.old_value_
  ELSE \A i \in DOMAIN action.actions_ :
         (\A j \in 1 .. i - 1 : action.actions_[j].coord_ # action.actions_[i].coord_)
           => cw.grid_[action.actions_[i].coord_].contents = action.actions_[i].old_value_

Locks(cw) == [c \in Coords |-> cw.grid_[c].locked]

\* C1: when Autofill ends through the is_solved branch, every slot is filled,
\* every slot's word (the pre-filled ones included) is in the word index,
\* and no two slots hold the same word.
C1_SolvedGridIsValid ==
  af.found =>
    LET slots == Clues_(crossword)
    IN /\ \A i \in DOMAIN slots :
            /\ ClueIsFilled(slots[i])
            /\ ContainsEntry(db, ToWord(slots[i]))
       /\ \A i, j \in DOMAIN slots : i # j => ToWord(slots[i]) # ToWord(slots[j])

\* Autofill has returned with a solution of a puzzle that had a letter in it.
C1_Witness ==
  /\ pc = "returned"
  /\ af.found
  /\ ~IsEmptyAtom(at_call.grid_[Coord(0, 0)].contents)
  /\ Len(Clues_(crossword)) >= 4

\* C7 as stated: a StopAutofill() called at any point between the call of
\* Autofill and the setting of done is honoured: after it no node is applied
\* and no further outer iteration is begun.
C7_StopIsHonoured ==
  [][stop_called =>
       /\ ~(pc = "outer" /\ pc' = "dfs")
       /\ (pc = "dfs" => crossword' = crossword)]_vars

\* C8: with rollback = true, when Autofill ends without a solution (the tree
\* exhausted, the search cancelled, or the deadline passed) the contents of
\* every cell and the head index of the log are what they were at the call.
C8_RollbackRestores ==
  (pc \in {"finish", "join", "returned"} /\ ~af.found /\ params.rollback) =>
    /\ Contents(crossword) = Contents(at_call)
    /\ crossword.action_stack_.index_ = at_call.action_stack_.index_

\* A search that exhausted the tree below a typed letter has returned.
C8_Witness ==
  /\ pc = "returned"
  /\ ~af.found
  /\ params.rollback
  /\ af.complete_search
  /\ at_call.action_stack_.index_ = 1
  /\ Len(crossword.action_stack_.stack_) > 2

\* C9 as stated: with rollback = false a failed iteration is not undone: the
\* log and the grid keep the last branch explored.
C9_NoUndoWithoutRollback ==
  [][(pc = "after" /\ ~af.found /\ ~params.rollback) => crossword' = crossword]_vars

\* C10: whatever the outcome, when Autofill returns the lock flag of every
\* cell is what it was before the call.
C10_LocksRestored == pc = "returned" => Locks(crossword) = Locks(at_call)

\* Autofill has returned with a solution of a puzzle whose typed letter it
\* had locked, and the user's own lock on an empty cell does not exist here.
C10_Witness ==
  /\ pc = "returned"
  /\ af.found
  /\ af.locked_coords # << >>
  /\ ~Locks(crossword)[Coord(0, 0)]
  /\ IsFilled(crossword, Coord(2, 2))

\* C11: every call of Autofill terminates.  For the parameters of the
\* documented ranges (a score_min_decay of 1 and a grid with no solution
\* among them), with the watchdog thread scheduled fairly, a call that has
\* been entered leaves both loops, sets done_searching and returns after
\* the watchdog thread has been joined.
C11_AutofillTerminates ==
  /\ (pc = "entered") ~> (pc = "returned")
  /\ [](pc = "returned" => done_searching /\ watchdog.pc = "exit")

\* A search whose score_min never decays, on a puzzle it could not solve,
\* has returned after the watchdog - and not the caller - stopped it.
C11_Witness ==
  /\ pc = "returned"
  /\ ~af.found
  /\ ~af.complete_search
  /\ ~stop_called
  /\ params.score_min_decay = Fraction(1, 1)
  /\ params.score_min > 0

\* C12 as stated: Autofill never applies an action to the grid or the log
\* unless, at the time of the call, the index has finished loading, the
\* barrier pattern is valid and the oracle says Solvable at score_min = 1;
\* and through OnAutofill a violated condition gives an error and no search
\* thread is started.
C12_AutofillIsGuarded ==
  /\ [](pc \in {"entered", "outer", "dfs", "after", "finish", "join", "returned"} =>
          /\ db.is_finished_loading_
          /\ IsValidPattern(at_call)
          /\ \A o \in IsInvalidPartial(Clues(at_call), FlushCaches(db), 1) :
               o.ret = "Solvable")
  /\ [](op = "error" => pc \in {"idle", "aborted"})
  /\ [][(op = "new" /\ op' # "new") =>
          IF /\ db.is_finished_loading_
             /\ IsValidPattern(crossword)
             /\ \A o \in IsInvalidPartial(Clues(crossword), FlushCaches(db), 1) :
                  o.ret = "Solvable"
          THEN op' = "thread"
          ELSE op' = "error" /\ pc' = "idle"]_vars

(***************************************************************************)
(* Properties of the word index and of the oracle.                         *)
(***************************************************************************)
\* How often w occurs in the list seq.
Count(seq, w) == Cardinality({i \in DOMAIN seq : seq[i] = w})

\* The words added so far that have as many letters as partial, in the
\* order they were added.
Added(partial) ==
  [i \in DOMAIN db.databases_[Len(partial)].entries_ |->
     db.databases_[Len(partial)].entries_[i].entry]

\* Every non-empty position of partial equals w at that position.
Matches(partial, w) ==
  /\ Len(w) = Len(partial)
  /\ \A i \in DOMAIN partial : IsEmptyAtom(partial[i]) \/ partial[i] = w[i]

\* C13 as stated: for a list L of complete words of one length inserted in
\* any order, duplicates allowed, find(p) returns exactly the multiset of
\* the words of L that match p.
C13_FindReturnsTheMultiset ==
  query.name = "find" =>
    \A w \in Range(answer) \cup Range(Added(query.partial)) :
      Count(answer, w) =
        IF Matches(query.partial, w) THEN Count(Added(query.partial), w) ELSE 0

\* C13, amended: find(p) returns each word of L that matches p exactly once,
\* however often L holds it, and nothing else.
C13_FindReturnsEachMatchOnce ==
  query.name = "find" =>
    \A w \in Range(answer) \cup Range(Added(query.partial)) :
      Count(answer, w) =
        IF Matches(query.partial, w) /\ Count(Added(query.partial), w) > 0 THEN 1 ELSE 0

\* A partial word with a wildcard has been looked up in a trie that had the
\* same word inserted twice, and the word was found.
C13_Witness ==
  /\ query.name = "find"
  /\ \E i \in DOMAIN query.partial : IsEmptyAtom(query.partial[i])
  /\ \E i \in DOMAIN query.partial : ~IsEmptyAtom(query.partial[i])
  /\ \E w \in Range(answer) : Count(Added(query.partial), w) = 2

\* What one slot makes of the verdict, "none" if it triggers nothing.
SlotVerdict(s, score_min) ==
  LET fixed == db.databases_[s.size_]
      in_dictionary == \E i \in DOMAIN fixed.entries_ : fixed.entries_[i].entry = s.constraints_
      fitting == {i \in DOMAIN fixed.entries_ :
                    /\ fixed.entries_[i].frequency_score >= score_min
                    /\ Matches(s.constraints_, fixed.entries_[i].entry)}
  IN IF \A k \in 1 .. s.size_ : s.constraints_[k] # kEMPTY_CODE
     THEN IF s.locked_ THEN "none"
          ELSE IF ~in_dictionary THEN "Invalid"
          ELSE IF fixed.word_set_[s.constraints_] < score_min THEN "Weak"
          ELSE "none"
     ELSE IF fitting = {} THEN "Overdetermined" ELSE "none"

\* The reference procedure: the verdict of the first slot of the list that
\* triggers one; else Duplicate when two filled slots hold one word; else
\* Solvable.
Reference(slots, score_min) ==
  LET triggering == {i \in DOMAIN slots : SlotVerdict(slots[i], score_min) # "none"}
      Full(i) == \A k \in 1 .. slots[i].size_ : slots[i].constraints_[k] # kEMPTY_CODE
  IN IF triggering # {}
     THEN SlotVerdict(slots[CHOOSE i \in triggering : \A j \in triggering : i <= j],
                      score_min)
     ELSE IF \E i, j \in DOMAIN slots :
               i # j /\ Full(i) /\ Full(j) /\ slots[i].constraints_ = slots[j].constraints_
          THEN "Duplicate"
          ELSE "Solvable"

\* C14: called with an empty partial cache, the oracle returns what the
\* reference procedure returns for the same slot list, dictionary and
\* score_min.
C14_OracleIsTheReference ==
  (query.name = "oracle" /\ query.fresh) =>
    answer = Reference(query.all_clues, query.score_min)

\* The oracle, its cache empty, has gone past two slots that are filled and
\* locked with a word the dictionary lacks, and has found them to hold the
\* same word, while the dictionary holds a word of that length.
C14_Witness ==
  /\ query.name = "oracle"
  /\ query.fresh
  /\ answer = "Duplicate"
  /\ query.all_clues[1].locked_
  /\ ~ContainsEntry(db, ToWord(query.all_clues[1]))
  /\ db.databases_[3].entries_ # << >>

\* C15 as stated: if the oracle returns Solvable at score_min = s, a call at
\* any s2 <= s returns Solvable too, whatever the partial cache holds at the
\* time of either call.  Here the first call is made on a flushed cache and
\* the second on the cache as it is.
C15_SolvableIsMonotone ==
  query.name = "oracle" =>
    \A s \in Scores, s2 \in Scores :
      (/\ s2 <= s
       /\ \E o \in IsInvalidPartial(query.all_clues, FlushCaches(db), s) :
            o.ret = "Solvable")
        => \A o \in IsInvalidPartial(query.all_clues, db, s2) : o.ret = "Solvable"

\* Claim C30: a HasSolution call made when, since the caches were last
\* empty, no entry was added and every call used the same score_min, returns
\* true exactly when an entry of the slot's length has that score or more
\* and fits the slot, whether the partial word was found in the cache or
\* not and whatever was evicted; a cache never holds more than max_elements
\* partial words.
C30_HasSolutionIsExact ==
  /\ \A n \in Dim : Cardinality(DOMAIN db.databases_[n].partial_word_cache_) <= max_elements
  /\ (/\ query.name = "has_solution"
      /\ ~query.stale
      /\ query.uses = {query.score_min})
     => answer = (\E i \in DOMAIN db.databases_[query.clue.size_].entries_ :
                    LET e == db.databases_[query.clue.size_].entries_[i]
                    IN /\ e.frequency_score >= query.score_min
                       /\ FitsWord(query.clue, e.entry))

C30_Witness ==
  /\ query.name = "has_solution"
  /\ ~query.stale
  /\ query.uses = {query.score_min}
  /\ query.evicted
  /\ query.hit
  /\ answer = TRUE
  /\ query.score_min = 100
  /\ \E i \in DOMAIN db.databases_[3].entries_ : db.databases_[3].entries_[i].frequency_score = 1

(***************************************************************************)
(* Properties of the clue structure.                                       *)
(***************************************************************************)
\* The cell k steps from start in direction.
Step(direction, start, k) ==
  IF direction = kDOWN THEN [row |-> start.row + k, col |-> start.col]
  ELSE [row |-> start.row, col |-> start.col + k]

\* c is a cell of the current grid and is not a barrier.
OpenAt(cw, c) ==
  /\ c.row \in 0 .. (cw.height_ - 1)
  /\ c.col \in 0 .. (cw.width_ - 1)
  /\ ~cw.grid_[c].is_barrier

\* The maximal runs of consecutive open cells in direction, as pairs of the
\* first cell and the length.
MaximalRuns(cw, direction) ==
  {run \in Coords \X (1 .. kMAX_DIM) :
     /\ \A k \in 0 .. (run[2] - 1) : OpenAt(cw, Step(direction, run[1], k))
     /\ ~OpenAt(cw, Step(direction, run[1], -1))
     /\ ~OpenAt(cw, Step(direction, run[1], run[2]))}

\* C16: after any sequence of set_barrier, toggle_barrier, set_dimensions
\* and content edits the clue structure is not dirty, and the slot list has
\* exactly one slot for each maximal run of at least 3 open cells of a row
\* or a column of the current grid, with the start, the length and the
\* coordinates of the run, across slots before down slots, and no slot for
\* a run of 1 or 2 cells.
C16_SlotsAreTheMaximalRuns ==
  LET slots == Clues(crossword)
      Of(direction, run) ==
        {i \in DOMAIN slots : slots[i].direction_ = direction /\ slots[i].start_ = run[1]}
  IN /\ ~crossword.clue_cache_.dirty
     /\ \A direction \in {kACROSS, kDOWN} : \A run \in MaximalRuns(crossword, direction) :
          IF run[2] >= 3
          THEN /\ Cardinality(Of(direction, run)) = 1
               /\ \A i \in Of(direction, run) :
                    /\ slots[i].size_ = run[2]
                    /\ slots[i].coord_list_ =
                         [k \in 1 .. run[2] |-> Step(direction, run[1], k - 1)]
          ELSE Of(direction, run) = {}
     /\ \A i \in DOMAIN slots :
          <<slots[i].start_, slots[i].size_>> \in MaximalRuns(crossword, slots[i].direction_)
     /\ \A i, j \in DOMAIN slots :
          (slots[i].direction_ = kACROSS /\ slots[j].direction_ = kDOWN) => i < j

\* A content edit has followed a barrier edit on a grid whose width was
\* changed: a row has a run of two open cells, and there are slots.
C16_Witness ==
  /\ op = "set"
  /\ prev_op \in {"set_barrier", "toggle_barrier"}
  /\ crossword.width_ # kSTART_WIDTH
  /\ \E run \in MaximalRuns(crossword, kACROSS) : run[2] = 2
  /\ \E run \in MaximalRuns(crossword, kDOWN) : run[2] >= 3
  /\ Clues(crossword) # << >>

\* The cells that start at least one slot.
StartCells == {Clues(crossword)[i].start_ : i \in DOMAIN Clues(crossword)}

\* How many start cells come up to c in row-major order.
Rank(c) ==
  Cardinality({d \in StartCells :
                 d.row < c.row \/ (d.row = c.row /\ d.col <= c.col)})

\* C17: the cells that start at least one slot are numbered 1, 2, 3, ... in
\* row-major order, every slot carries the number of its start cell (so an
\* across and a down slot of one start cell carry the same number), and
\* clue_number(coord) is that number for a start cell and -1 for every
\* other cell in bounds.
C17_NumberingIsRowMajor ==
  /\ \A i \in DOMAIN Clues(crossword) :
       Clues(crossword)[i].clue_number_ = Rank(Clues(crossword)[i].start_)
  /\ \A c \in Coords :
       InBounds(crossword, c) =>
         GetClueNumber(crossword, c) = IF c \in StartCells THEN Rank(c) ELSE kNO_NUMBER

\* After a barrier edit an across and a down slot start at one cell, a slot
\* has a number of 3 or more, and a cell inside a slot has no number.
C17_Witness ==
  /\ op \in {"set_barrier", "toggle_barrier"}
  /\ \E i, j \in DOMAIN Clues(crossword) :
       i # j /\ Clues(crossword)[i].start_ = Clues(crossword)[j].start_
  /\ \E i \in DOMAIN Clues(crossword) : Clues(crossword)[i].clue_number_ >= 3
  /\ \E i \in DOMAIN Clues(crossword) : \E c \in Range(Clues(crossword)[i].coord_list_) :
       GetClueNumber(crossword, c) = kNO_NUMBER

C19_LockedFlagIsCurrent ==
  ~crossword.tripped =>
    \A i \in DOMAIN Clues(crossword) :
      Clues(crossword)[i].locked_ =
        \A c \in Range(Clues(crossword)[i].coord_list_) :
          IsLocked(crossword, c) /\ ~IsEmptyAtom(Get(crossword, c).contents)

\* The clue structure without the constraints of its slots.
Shape(cw) ==
  [cw.clue_cache_ EXCEPT
     !.clues = [i \in DOMAIN @ |-> [@[i] EXCEPT !.constraints_ = << >>]]]

\* C20: in every state every slot's constraint atom k is the contents of the
\* cell at the slot's k-th coordinate, and a content edit (set, set_slot,
\* clear_slot, clear_all_atoms, undo, redo) leaves the slot list, the
\* numbers and the cell mapping as they were, constraints apart.
C20_ConstraintsMirrorTheCells ==
  /\ [](\A i \in DOMAIN Clues(crossword) : \A k \in 1 .. Clues(crossword)[i].size_ :
          Clues(crossword)[i].constraints_[k] =
            Get(crossword, Clues(crossword)[i].coord_list_[k]).contents)
  /\ [][op' \in EditOps \cup {"undo", "redo"} => Shape(crossword') = Shape(crossword)]_vars

\* A slot filled after a barrier edit and a change of the dimensions holds
\* its letters in its constraints.
C20_Witness ==
  /\ op = "set_slot"
  /\ prev_op \in {"set_barrier", "toggle_barrier", "set_dimensions"}
  /\ ~crossword.tripped
  /\ crossword.height_ # kSTART_HEIGHT \/ crossword.width_ # kSTART_WIDTH
  /\ \E c \in Coords : InBounds(crossword, c) /\ Get(crossword, c).is_barrier
  /\ \E i \in DOMAIN Clues(crossword) : ClueIsFilled(Clues(crossword)[i])

(***************************************************************************)
(* Properties of the edits that are not logged.                            *)
(***************************************************************************)
GridOps == {"set_barrier", "toggle_barrier", "set_dimensions", "lock_cell", "toggle_lock"}

Barriers(cw) == [c \in Coords |-> cw.grid_[c].is_barrier]

\* The set actions of an action of the log.
Parts(action) ==
  IF action.kind = "set" THEN {action} ELSE Range(action.actions_)

C23_SetDimensionsKeepsTheStore ==
  ~crossword.tripped =>
    \A height \in kMIN_CLUE .. kMAX_DIM, width \in kMIN_CLUE .. kMAX_DIM :
      LET once == SetDimensions(crossword, height, width)
          back == SetDimensions(once, crossword.height_, crossword.width_)
      IN /\ once.grid_ = crossword.grid_
         /\ once.action_stack_ = crossword.action_stack_
         /\ once.height_ = height /\ once.width_ = width
         /\ SetDimensions(once, height, width) = once
         /\ (/\ height <= crossword.height_
             /\ width <= crossword.width_
             /\ height * width < crossword.height_ * crossword.width_) =>
              /\ back.grid_ = crossword.grid_
              /\ Clues(back) = Clues(crossword)
              /\ \A c \in Coords :
                   InBounds(crossword, c) =>
                     GetClueNumber(back, c) = GetClueNumber(crossword, c)

(***************************************************************************)
(* Properties of the barrier pattern and of puzzle files.                  *)
(***************************************************************************)
\* C21: is_valid_pattern() is true if and only if no row and no column of
\* the live grid has a maximal run of exactly 2 open cells, whatever runs
\* of 1 there are; a grid of barriers only is valid and has no slot.
C21_ValidIffNoRunOfTwo ==
  /\ IsValidPattern(crossword) =
       \A direction \in {kACROSS, kDOWN} :
         \A run \in MaximalRuns(crossword, direction) : run[2] # 2
  /\ (\A c \in Coords : InBounds(crossword, c) => Get(crossword, c).is_barrier) =>
       IsValidPattern(crossword) /\ Clues(crossword) = << >>

\* A file of barriers only has been read into a puzzle that had open
\* cells: every live cell is a barrier.
C21_Witness ==
  /\ op = "unserialize"
  /\ ~crossword.tripped
  /\ \A c \in Coords : InBounds(crossword, c) => Get(crossword, c).is_barrier
  /\ IsValidPattern(crossword)

\* C24 as stated: a file written from a grid g and read by an engine in any
\* state gives a grid of g's height and width whose cells have g's
\* barriers and g's contents.
C24_FileRoundTrip ==
  (op = "unserialize" /\ ~crossword.tripped) =>
    /\ crossword.height_ = query.g.height_
    /\ crossword.width_ = query.g.width_
    /\ \A c \in Coords :
         InBounds(crossword, c) =>
           /\ Get(crossword, c).is_barrier = query.g.grid_[c].is_barrier
           /\ ~Get(crossword, c).is_barrier =>
                Get(crossword, c).contents = query.g.grid_[c].contents

\* Claim C38: undo() and redo() trip no precondition, whatever edits of the
\* contents, of the barriers, of the dimensions and of the locks came
\* before: the set actions they invert or apply again write neither a barrier
\* cell nor a cell out of bounds.
C38_UndoRedoTripNothing ==
  op \in {"undo", "redo"} => ~crossword.tripped

(***************************************************************************)
(* Properties of the depth-first search.                                    *)
(***************************************************************************)
\* The complete fills of a grid: the ways to put a letter in each of its
\* empty open cells so that every slot spells an entry of the database of
\* score score_min or more and no two slots spell the same word.
CompleteFills(cw, database, score_min) ==
  LET slots == Clues_(cw)
      blank == {c \in Coords : InBounds(cw, c) /\ ~cw.grid_[c].is_barrier
                                /\ IsEmptyAtom(cw.grid_[c].contents)}
      Spelt(f, i) == [k \in DOMAIN slots[i].coord_list_ |->
                        LET c == slots[i].coord_list_[k]
                        IN IF c \in blank THEN f[c] ELSE cw.grid_[c].contents]
  IN {f \in [blank -> Letters] :
        /\ \A i \in DOMAIN slots :
             /\ ContainsEntry(database, Spelt(f, i))
             /\ GetFrequencyScore(database, Spelt(f, i)) >= score_min
        /\ \A i, j \in DOMAIN slots : i # j => Spelt(f, i) # Spelt(f, j)}

\* Claim C27: when the grid Autofill was called on has a complete fill at the
\* iteration's score_min and branching_factor_limit is none, an iteration
\* whose depth-first loop ran to its end without seeing stop_searching has
\* found a solution.
C27_SearchLosesNoSolution ==
  (/\ pc = "after"
   /\ af.complete_search
   /\ params.branching_factor_limit = kNO_NUMBER
   /\ CompleteFills(at_call, db, params.score_min) # {})
  => af.found

C27_Witness ==
  /\ pc = "after"
  /\ af.complete_search
  /\ af.found
  /\ params.branching_factor_limit = kNO_NUMBER
  /\ CompleteFills(at_call, db, params.score_min) # {}
  /\ ~IsEmptyAtom(at_call.grid_[Coord(0, 0)].contents)

\* Claim C28: with branching_factor_limit = L set, a pass of the depth-first
\* loop pops one node and pushes at most L children (the fills GetWordFills
\* returned for the node).
C28_AtMostLimitChildren ==
  [][(/\ pc = "dfs"
      /\ pc' = "dfs"
      /\ params.branching_factor_limit # kNO_NUMBER)
     => Len(af'.dfs_stack) <= Len(af.dfs_stack) - 1 + params.branching_factor_limit]_vars

\* Claim C29: while a search is in flight, the handling of a refresh writes
\* nothing the search reads or writes: the crossword (grid, log and clue
\* structure), the word database with its partial-word caches, the
\* parameters and the locals of Autofill are as before it.
C29_RefreshOnlyReads ==
  [][(query' # query /\ query'.name = "refresh")
     => /\ crossword' = crossword
        /\ db' = db
        /\ params' = params
        /\ af' = af]_vars

(***************************************************************************)
(* Properties of the loading of the dictionary.                             *)
(***************************************************************************)
\* Claim C25: once LoadDeferred has been called for a readable file (and for
\* no other), a WaitForLock() that has returned finds every such load
\* completed: each loader thread has run LoadFromFile to its end and
\* is_finished_loading_ is true.
C25_WaitReturnsAfterTheLoad ==
  (/\ query.name = "wait_for_load"
   /\ loader.threads # << >>
   /\ \A t \in DOMAIN loader.threads : loader.threads[t].file.is_open)
  => (/\ \A t \in DOMAIN loader.threads : loader.threads[t].pc = "done"
      /\ db.is_finished_loading_)

\* Claim C26: a LoadFromFile or a LoadDeferred of a path that cannot be
\* opened, the loader thread's steps included, leaves the WordDatabase as
\* it was: the entries, the word sets, the tries and is_finished_loading_.
C26_FailedLoadKeepsTheIndex ==
  [][(\/ /\ next_id' # next_id
         /\ query'.name \in {"load_from_file", "load_deferred"}
         /\ ~query'.file.is_open
      \/ \E t \in DOMAIN loader.threads :
           /\ ~loader.threads[t].file.is_open
           /\ t \in DOMAIN loader'.threads
           /\ loader'.threads[t].pc # loader.threads[t].pc)
     => db' = db]_vars


\* Claim C32: when a load of a file that can be opened completes, every
\* per-length partial_word_cache_ is empty, so that no answer of HasSolution
\* cached before the load is returned after it.
C32_LoadEmptiesTheCaches ==
  [][(/\ next_id' # next_id
      /\ query'.name = "load_from_file"
      /\ query'.file.is_open)
     => (/\ db'.is_finished_loading_
         /\ \A n \in Dim : DOMAIN db'.databases_[n].partial_word_cache_ = {})]_vars

(***************************************************************************)
(* Properties of the caches during a search.                                *)
(***************************************************************************)
\* HasSolution without a cache: some entry of the partial word's length has
\* score_min or more and fits it.
Uncached(database, partial, score_min) ==
  \E i \in DOMAIN database.databases_[Len(partial)].entries_ :
    LET e == database.databases_[Len(partial)].entries_[i]
    IN /\ e.frequency_score >= score_min
       /\ \A k \in DOMAIN partial : IsEmptyAtom(partial[k]) \/ partial[k] = e.entry[k]

\* Claim C31: during an outer iteration of Autofill every answer the
\* partial-word caches hold, hence every answer HasSolution gives the oracle,
\* is the uncached answer for the iteration's score_min.
C31_CacheIsOfTheIteration ==
  pc \in {"dfs", "after"}
  => \A n \in Dim : \A partial \in DOMAIN db.databases_[n].partial_word_cache_ :
       db.databases_[n].partial_word_cache_[partial]
         = Uncached(db, partial, params.score_min)

\* An iteration at a score above 1 has cached an answer that is not the one
\* the check at score 1 gave.
C31_Witness ==
  /\ pc = "dfs"
  /\ params.score_min > 1
  /\ \E partial \in DOMAIN db.databases_[3].partial_word_cache_ :
       /\ ~db.databases_[3].partial_word_cache_[partial]
       /\ Uncached(db, partial, 1)


\* Every Undo() of the loop that rolls the log back to depth returns true.
RECURSIVE UndosSucceed(_, _)
UndosSucceed(cw, depth) ==
  GetSize(cw) > depth => Undo(cw).ret /\ UndosSucceed(Undo(cw).cw, depth)

\* Claim C34: when the depth-first loop takes a node of depth d from its
\* stack, the log holds at least d - 1 actions; the rollback stops at
\* exactly d - 1 and none of its undos returns false; once the node is
\* applied the log holds exactly d; and every old value the node's group
\* recorded is the contents, in the grid the group is applied to, of the cell
\* it overwrites.
C34_NodeIsAppliedToItsParent ==
  [][(/\ pc = "dfs"
      /\ af.dfs_stack # << >>
      /\ ~stop_searching
      /\ af'.dfs_stack # af.dfs_stack)
     => LET node == af.dfs_stack[Len(af.dfs_stack)]
            parent == UndoTo(crossword, node.depth - 1)
        IN /\ GetSize(crossword) >= node.depth - 1
           /\ UndosSucceed(crossword, node.depth - 1)
           /\ GetSize(parent) = node.depth - 1
           /\ ~parent.tripped
           /\ GetSize(crossword') = node.depth
           /\ ~crossword'.tripped
           /\ \A i \in DOMAIN node.action.actions_ :
                node.action.actions_[i].old_value_
                  = Get(parent, node.action.actions_[i].coord_).contents]_vars

\* The node to take next is to be applied after a rollback of two actions.
C34_Witness ==
  /\ pc = "dfs"
  /\ af.dfs_stack # << >>
  /\ ~stop_searching
  /\ GetSize(crossword) >= af.dfs_stack[Len(af.dfs_stack)].depth + 1
  /\ af.dfs_stack[Len(af.dfs_stack)].action.actions_ # << >>

\* Claim C36: from the call of Autofill to its return no cell that was filled
\* at the call changes its contents; every action the depth-first loop
\* applies writes only cells that are empty in the grid it is applied to and
\* changes no other cell; and the log never gets shorter than it was when the
\* outer iteration started, in the loop and in the rollback after it.
C36_FilledCellsAreKept ==
  /\ [](pc \in {"entered", "outer", "dfs", "after", "finish", "join", "returned"}
        => /\ \A c \in Coords :
                ~IsEmptyAtom(at_call.grid_[c].contents)
                  => crossword.grid_[c].contents = at_call.grid_[c].contents
           /\ GetSize(crossword) >= af.initial_depth)
  /\ [][(/\ pc = "dfs"
         /\ af.dfs_stack # << >>
         /\ ~stop_searching
         /\ af'.dfs_stack # af.dfs_stack)
        => LET node == af.dfs_stack[Len(af.dfs_stack)]
               parent == UndoTo(crossword, node.depth - 1)
               written == {node.action.actions_[i].coord_ : i \in DOMAIN node.action.actions_}
           IN /\ node.depth - 1 >= af.initial_depth
              /\ \A c \in written : IsEmptyAtom(Get(parent, c).contents)
              /\ \A c \in Coords \ written :
                   crossword'.grid_[c].contents = parent.grid_[c].contents]_vars

\* The search has written the cells beside a letter typed before the call.
C36_Witness ==
  /\ pc = "dfs"
  /\ ~IsEmptyAtom(at_call.grid_[Coord(0, 0)].contents)
  /\ IsEmptyAtom(at_call.grid_[Coord(0, 1)].contents)
  /\ ~IsEmptyAtom(crossword.grid_[Coord(0, 1)].contents)
  /\ ~IsEmptyAtom(crossword.grid_[Coord(1, 0)].contents)

\* Claim C37: when Autofill has returned without a solution and with the log
\* rolled back, the log, its stored actions and its head, is what it was at
\* the call, and a redo() does what it would have done at the call.
C37_FailedSearchKeepsTheLog ==
  (/\ pc = "returned"
   /\ ~af.found
   /\ GetSize(crossword) = GetSize(at_call))
  => /\ crossword.action_stack_ = at_call.action_stack_
     /\ Redo(crossword).ret = Redo(at_call).ret
     /\ Contents(Redo(crossword).cw) = Contents(Redo(at_call).cw)

(***************************************************************************)
(* Properties of the generation of candidates.                             *)
(***************************************************************************)
\* The slots with an empty cell, and the one GetWordFills is to expand: the
\* least by row + col of the start, then by row, then across before down.
OpenSlots(cw) ==
  {clue \in Range(Clues(cw)) : \E i \in DOMAIN clue.constraints_ : IsEmptyAtom(clue.constraints_[i])}

FirstOpenSlot(cw) ==
  LET Key(clue) == <<clue.start_.row + clue.start_.col, clue.start_.row,
                     IF clue.direction_ = kACROSS THEN 0 ELSE 1>>
      Before(x, y) == \/ x[1] < y[1]
                      \/ x[1] = y[1] /\ x[2] < y[2]
                      \/ x[1] = y[1] /\ x[2] = y[2] /\ x[3] < y[3]
  IN CHOOSE clue \in OpenSlots(cw) :
       \A other \in OpenSlots(cw) \ {clue} : Before(Key(clue), Key(other))

\* Every group of a list of fills writes the empty cells of the slot, all
\* of them and nothing else.
FillsOnly(fills, clue) ==
  \A k \in DOMAIN fills :
    {fills[k].actions_[i].coord_ : i \in DOMAIN fills[k].actions_}
      = {clue.coord_list_[i] : i \in {j \in DOMAIN clue.constraints_ :
                                        IsEmptyAtom(clue.constraints_[j])}}

\* Claim C33: GetWordFills expands the first slot with an empty cell in the
\* order by row + col, row, across before down; every group it returns fills
\* that slot only; and it returns nothing exactly when no slot has an empty
\* cell or no word of the dictionary fits the slot (GetSolutions does not
\* look at the scores).
C33_ExpandsTheFirstOpenSlot ==
  \A fills \in GetWordFills(crossword, Clues(crossword), params, db) :
    IF OpenSlots(crossword) = {} THEN fills = << >>
    ELSE /\ FillsOnly(fills, FirstOpenSlot(crossword))
         /\ fills = << >>
              <=> ~\E word \in DOMAIN db.databases_[FirstOpenSlot(crossword).size_].word_set_ :
                     FitsWord(FirstOpenSlot(crossword), word)

\* The search has filled the top row, the left column is the slot to expand
\* and words fit it.
C33_Witness ==
  /\ pc = "dfs"
  /\ ClueIsFilled(Clues(crossword)[1])
  /\ OpenSlots(crossword) # {}
  /\ FirstOpenSlot(crossword).direction_ = kDOWN
  /\ FirstOpenSlot(crossword).start_ = Coord(0, 0)
  /\ \E fills \in GetWordFills(crossword, Clues(crossword), params, db) : Len(fills) > 1


\* The database with the caches of the lengths from i on emptied.
RECURSIVE WithoutCaches(_, _)
WithoutCaches(database, i) ==
  IF i >= kMAX_DIM THEN database
  ELSE WithoutCaches([database EXCEPT !.databases_[i].partial_word_cache_ = EmptyMap], i + 1)

\* Claim C35: of the n candidates of the slot only the first
\* k = floor(min(1, entropy / 100) * n) are permuted, the others keep their
\* positions and the candidates stay the same; hence with entropy 0 a pass of
\* the depth-first loop has one outcome for the grid, the stack of nodes and
\* the place the search goes on at, whichever entry a full cache throws out
\* and whatever the caches hold, so that two runs from the same grid, log and
\* dictionary that are not stopped visit the same nodes in the same order
\* and end in the same grid.
C35_OnlyTheFirstAreShuffled ==
  /\ (~crossword.tripped /\ OpenSlots(crossword) # {})
     => LET chosen == FirstOpenSlot(crossword)
            candidates == GetSolutions(db, chosen, kNO_NUMBER, params.score_min)
            count == Len(candidates)
            first == ((IF params.entropy >= 100 THEN 100 ELSE params.entropy) * count) \div 100
            GroupOf(j) == CrosswordActionGroupFill(crossword, 0, chosen, candidates[j])
        IN \A fills \in GetWordFills(crossword, Clues(crossword), params, db) :
             /\ Len(fills) = count
             /\ \A j \in (first + 1) .. count : fills[j] = GroupOf(j)
             /\ Range(fills) = {GroupOf(j) : j \in 1 .. count}
  /\ (pc = "dfs" /\ af.dfs_stack # << >> /\ params.entropy = 0)
     => \A r \in Expand(crossword, af, params, db),
           s \in Expand(crossword, af, params, WithoutCaches(db, 0)) :
          /\ r.crossword = s.crossword
          /\ r.af = s.af
          /\ r.pc = s.pc

\* The slot to expand has four candidates, two of which are shuffled.
C35_Witness ==
  /\ pc = "dfs"
  /\ af.dfs_stack # << >>
  /\ OpenSlots(crossword) # {}
  /\ Len(GetSolutions(db, FirstOpenSlot(crossword), kNO_NUMBER, params.score_min)) = 4
  /\ Cardinality(GetWordFills(crossword, Clues(crossword), params, db)) = 2


(***************************************************************************)
(* Properties of the application.                                          *)
(***************************************************************************)
\* Claim C39: in the application a search is started only when none is
\* running, and from the moment is_searching is set to the moment the search
\* thread clears it no handler of the user's thread edits the crossword or
\* its log and nothing edits the dictionary: its entries, word sets, tries
\* and loaded flag stay as they are.
C39_NothingEditsDuringASearch ==
  [][/\ (op' = "thread" /\ op # "thread") => ~is_searching
     /\ is_searching
        => /\ next_id' = next_id
           /\ op' = op
           /\ WithoutCaches(db', 0) = WithoutCaches(db, 0)]_vars


\* Claim C40: a call of Autofill starts one watchdog, at a moment when none
\* is running, and returns only when that watchdog has terminated, so that a
\* watchdog runs only within the call it was started for and cannot set
\* stop_searching in a later one; the watchdog leaves its loop when it sees
\* done_searching or stop_searching, counts a tick otherwise, and sets
\* stop_searching when its ticks are used up.
C40_OneWatchdogPerCall ==
  /\ [](watchdog.pc = "sleep" => pc \in {"outer", "dfs", "after", "finish", "join"})
  /\ [][(pc = "entered" /\ pc' # pc)
        => /\ watchdog.pc # "sleep"
           /\ watchdog'.pc = "sleep"
           /\ watchdog'.i = 0]_vars
  /\ [][watchdog' # watchdog /\ watchdog.pc = "sleep"
        => IF watchdog.i < watchdog.msecs
           THEN /\ stop_searching' = stop_searching
                /\ IF done_searching \/ stop_searching
                   THEN watchdog'.pc = "exit"
                   ELSE watchdog' = [watchdog EXCEPT !.i = @ + 1]
           ELSE stop_searching' /\ watchdog'.pc = "exit"]_vars

\* A later call is in its depth-first loop, its own watchdog running.
C40_Witness ==
  /\ next_id > 1
  /\ pc = "dfs"
  /\ watchdog.pc = "sleep"
  /\ watchdog.i > 0

=============================================================================
